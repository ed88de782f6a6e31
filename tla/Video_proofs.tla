---------------------------- MODULE Video_proofs ----------------------------
(***************************************************************************)
(* Proofs about the videos (Lzss, TileCodec, VideoStream), for frames of   *)
(* any size, any limits of the fields and any number of frames.            *)
(***************************************************************************)
EXTENDS VideoStream, SequenceTheorems, FiniteSetTheorems, WellFoundedInduction,
        TLAPS

-----------------------------------------------------------------------------
(* Numbers                                                                  *)

\* A set of numbers that has one has a least one.
LEMMA NatLeast ==
  ASSUME NEW S \in SUBSET Nat, S # {}
  PROVE  \E i \in S : \A j \in S : i <= j
<1> DEFINE Rel == {p \in Nat \X Nat : p[1] < p[2]}
<1>1. IsWellFoundedOn(Rel, Nat)
  BY NatLessThanWellFounded DEF OpToRel
<1>2. \E i \in S : \A j \in S : <<j, i>> \notin Rel
  <2> HIDE DEF Rel
  <2> QED BY <1>1, WFMin
<1>3. ASSUME NEW i \in S, NEW j \in S, <<j, i>> \notin Rel PROVE i <= j
  <2>1. <<j, i>> \in Nat \X Nat /\ i \in Nat /\ j \in Nat
    OBVIOUS
  <2>2. ~(j < i)
    BY <1>3, <2>1
  <2> QED BY <2>1, <2>2
<1> QED BY <1>2, <1>3

\* One less is left when one more has been taken.
LEMMA OneLess ==
  ASSUME NEW g \in Nat, NEW c \in Nat
  PROVE  (g - c) - 1 = g - (c + 1) /\ c + 1 > 0 /\ ~(c + 1 = 0)
OBVIOUS

\* Induction up to a number: a set with 0 that has with a number the next one.
Steps(S, n) == \A k \in 0 .. n - 1 : k \in S => k + 1 \in S

\* The numbers up to n are in a set that has 0 and, with a number below n, the
\* next one.
LEMMA UpTo ==
  ASSUME NEW n \in Nat, NEW S, 0 \in S, Steps(S, n)
  PROVE  \A k \in 0 .. n : k \in S
<1> DEFINE Bad == (0 .. n) \ S
<1> SUFFICES ASSUME Bad # {} PROVE FALSE
  OBVIOUS
<1>1. PICK k \in Bad : \A j \in Bad : k <= j
  <2>1. Bad \in SUBSET Nat
    OBVIOUS
  <2> HIDE DEF Bad
  <2> QED BY <2>1, NatLeast
<1>2. k \in 1 .. n /\ k - 1 \in 0 .. n - 1 /\ k - 1 \notin Bad
  BY <1>1
<1>3. k - 1 \in S
  BY <1>2
<1> QED BY <1>1, <1>2, <1>3 DEF Steps

\* Y goes on from base by the steps of g.
Recursive(Y, n, base, g, A) ==
  Y \in [0 .. n -> A] /\ Y[0] = base /\ \A i \in 1 .. n : Y[i] = g[<<i, Y[i - 1]>>]

\* There is such a Y.
LEMMA RecursionExists ==
  ASSUME NEW A, NEW n \in Nat, NEW base \in A, NEW g \in [(1 .. n) \X A -> A]
  PROVE  \E Y : Recursive(Y, n, base, g, A)
<1> DEFINE T == {k \in 0 .. n : \E Y : Recursive(Y, k, base, g, A)}
<1>1. 0 \in T
  <2> DEFINE Y == [k \in 0 .. 0 |-> base]
  <2>1. Recursive(Y, 0, base, g, A)
    BY DEF Recursive
  <2> HIDE DEF Y
  <2> QED
    BY <2>1
<1>2. ASSUME NEW k \in 0 .. n - 1, k \in T PROVE k + 1 \in T
  <2>1. PICK Y : Recursive(Y, k, base, g, A)
    BY <1>2
  <2> DEFINE X == [i \in 0 .. k + 1 |-> IF i = k + 1 THEN g[<<k + 1, Y[k]>>] ELSE Y[i]]
  <2>2. g[<<k + 1, Y[k]>>] \in A
    <3>1. k + 1 \in 1 .. n /\ Y[k] \in A
      BY <2>1 DEF Recursive
    <3> QED
      BY <3>1
  <2>3. X \in [0 .. k + 1 -> A] /\ X[0] = base
    BY <2>1, <2>2 DEF Recursive
  <2>4. ASSUME NEW i \in 1 .. k + 1 PROVE X[i] = g[<<i, X[i - 1]>>]
    <3>1. CASE i = k + 1
      <4>1. i - 1 = k /\ k \in 0 .. k + 1 /\ k # k + 1
        BY <3>1
      <4> QED
        BY <3>1, <4>1
    <3>2. CASE i # k + 1
      <4>1. i \in 1 .. k /\ i - 1 \in 0 .. k + 1 /\ i - 1 # k + 1
        BY <3>2
      <4> QED
        BY <2>1, <3>2, <4>1 DEF Recursive
    <3> QED
      BY <3>1, <3>2
  <2>5. Recursive(X, k + 1, base, g, A)
    BY <2>3, <2>4 DEF Recursive
  <2>6. k + 1 \in 0 .. n
    OBVIOUS
  <2> HIDE DEF X
  <2> QED
    BY <2>5, <2>6
<1>3. n \in T
  <2> HIDE DEF T
  <2>1. Steps(T, n)
    BY <1>2 DEF Steps
  <2> QED
    BY <1>1, <2>1, UpTo
<1> QED
  BY <1>3

\* Two solutions agree as far as both go.
LEMMA RecursionAgrees ==
  ASSUME NEW A, NEW n \in Nat, NEW m \in Nat, n <= m, NEW base, NEW g, NEW Y, NEW X,
         Recursive(Y, n, base, g, A), Recursive(X, m, base, g, A)
  PROVE  Y[n] = X[n]
<1> DEFINE T == {k \in 0 .. n : Y[k] = X[k]}
<1>1. 0 \in T
  BY DEF Recursive
<1>2. ASSUME NEW k \in 0 .. n - 1, k \in T PROVE k + 1 \in T
  <2>1. k + 1 \in 1 .. n /\ k + 1 \in 1 .. m /\ (k + 1) - 1 = k
    OBVIOUS
  <2>2. Y[k + 1] = g[<<k + 1, Y[k]>>] /\ X[k + 1] = g[<<k + 1, X[k]>>]
    BY <2>1 DEF Recursive
  <2>3. Y[k] = X[k] /\ k + 1 \in 0 .. n
    BY <1>2
  <2> QED
    BY <2>2, <2>3
<1>3. n \in T
  <2> HIDE DEF T
  <2>1. Steps(T, n)
    BY <1>2 DEF Steps
  <2> QED
    BY <1>1, <2>1, UpTo
<1> QED
  BY <1>3

\* The powers of two.
LEMMA Pow2Is ==
  /\ \A k \in Nat : Pow2[k] \in Nat /\ Pow2[k] > 0 /\ Pow2[k + 1] = 2 * Pow2[k]
  /\ Pow2[0] = 1
<1> DEFINE g == [p \in Nat \X Nat |-> 2 * p[2]]
           Eq(Y) == Y = [k \in Nat |-> IF k = 0 THEN 1 ELSE 2 * Y[k - 1]]
           P(n) == CHOOSE Y : Recursive(Y, n, 1, g, Nat)
           X == [k \in Nat |-> P(k)[k]]
<1>1. ASSUME NEW n \in Nat PROVE Recursive(P(n), n, 1, g, Nat)
  <2> DEFINE h == [p \in (1 .. n) \X Nat |-> 2 * p[2]]
  <2>1. h \in [(1 .. n) \X Nat -> Nat] /\ 1 \in Nat
    OBVIOUS
  <2> HIDE DEF h
  <2>2. PICK Y : Recursive(Y, n, 1, h, Nat)
    BY <2>1, RecursionExists
  <2>3. ASSUME NEW i \in 1 .. n PROVE h[<<i, Y[i - 1]>>] = g[<<i, Y[i - 1]>>]
    <3>1. Y[i - 1] \in Nat /\ i \in Nat
      BY <2>2 DEF Recursive
    <3> QED
      BY <3>1 DEF h
  <2>4. Recursive(Y, n, 1, g, Nat)
    <3> HIDE DEF g
    <3> QED
      BY <2>2, <2>3 DEF Recursive
  <2> HIDE DEF g
  <2> QED
    BY <2>4
<1> HIDE DEF P
<1>2. X[0] = 1 /\ \A k \in Nat : X[k] \in Nat
  <2> HIDE DEF g
  <2> QED
    BY <1>1 DEF Recursive
<1>3. ASSUME NEW k \in Nat \ {0} PROVE X[k] = 2 * X[k - 1]
  <2>1. k - 1 \in Nat /\ k - 1 <= k /\ k \in 1 .. k /\ k \in Nat /\ k - 1 \in 0 .. k
    OBVIOUS
  <2>2. Recursive(P(k), k, 1, g, Nat) /\ Recursive(P(k - 1), k - 1, 1, g, Nat)
    BY <1>1, <2>1
  <2>3. P(k - 1)[k - 1] = P(k)[k - 1]
    <3> HIDE DEF g
    <3> QED
      BY <2>1, <2>2, RecursionAgrees
  <2>4. P(k)[k] = g[<<k, P(k)[k - 1]>>] /\ P(k)[k - 1] \in Nat
    <3> HIDE DEF g
    <3> QED
      BY <2>1, <2>2 DEF Recursive
  <2>5. g[<<k, P(k)[k - 1]>>] = 2 * P(k)[k - 1]
    BY <2>4
  <2> HIDE DEF g
  <2> QED
    BY <2>1, <2>3, <2>4, <2>5
<1>4. Eq(X)
  <2> HIDE DEF g
  <2>1. X = [k \in Nat |-> X[k]]
    OBVIOUS
  <2> HIDE DEF X
  <2> QED
    BY <1>2, <1>3, <2>1
<1>5. Eq(Pow2)
  <2>1. Pow2 = CHOOSE Y : Eq(Y)
    BY DEF Pow2
  <2> HIDE DEF Eq, X
  <2> QED
    BY <1>4, <2>1
<1> HIDE DEF X
<1>6. Pow2[0] = 1 /\ \A k \in Nat : Pow2[k + 1] = 2 * Pow2[k]
  <2>1. \A k \in Nat : k + 1 \in Nat /\ k + 1 # 0 /\ (k + 1) - 1 = k
    OBVIOUS
  <2> QED
    BY <1>5, <2>1
<1>7. ASSUME NEW n \in Nat PROVE Pow2[n] \in Nat /\ Pow2[n] > 0
  <2> DEFINE T == {k \in Nat : Pow2[k] \in Nat /\ Pow2[k] > 0}
  <2>1. 0 \in T
    BY <1>6
  <2>2. ASSUME NEW k \in 0 .. n - 1, k \in T PROVE k + 1 \in T
    BY <1>6, <2>2
  <2> HIDE DEF T
  <2>3. Steps(T, n)
    BY <2>2 DEF Steps
  <2>4. n \in T
    BY <2>1, <2>3, UpTo
  <2> QED
    BY <2>4 DEF T
<1> QED
  BY <1>6, <1>7

\* A number is its quotient and its remainder, in one way only.
LEMMA QuotientIs ==
  ASSUME NEW w \in Nat \ {0}, NEW x \in Int, NEW k \in Int, NEW r \in 0 .. w - 1, x = w * k + r
  PROVE  x \div w = k /\ x % w = r
<1> DEFINE c == x % w
           e == x \div w
           p == e - k
<1>1. c \in 0 .. w - 1 /\ e \in Int /\ x = w * e + c
  OBVIOUS
<1> HIDE DEF c, e
<1>2. p \in Int /\ w * p = r - c
  <2>1. w * p = w * e - w * k /\ w * e \in Int /\ w * k \in Int
    BY <1>1
  <2> QED
    BY <1>1, <2>1
<1> HIDE DEF p
<1>3. p >= 1 => w * p >= w
  <2> SUFFICES ASSUME p >= 1 PROVE w * p >= w
    OBVIOUS
  <2>1. p - 1 \in Nat /\ w * (p - 1) = w * p - w /\ w * p \in Int
    BY <1>2
  <2>2. w * (p - 1) >= 0
    BY <2>1
  <2> QED
    BY <2>1, <2>2
<1>4. p <= -1 => w * p <= -w
  <2> SUFFICES ASSUME p <= -1 PROVE w * p <= -w
    OBVIOUS
  <2>1. -1 - p \in Nat /\ w * (-1 - p) = -w - w * p /\ w * p \in Int
    BY <1>2
  <2>2. w * (-1 - p) >= 0
    BY <2>1
  <2> QED
    BY <2>1, <2>2
<1>5. p = 0
  BY <1>1, <1>2, <1>3, <1>4
<1>6. e = k /\ c = r
  BY <1>1, <1>2, <1>5 DEF p
<1> QED
  BY <1>6 DEF c, e

\* A number is what the division leaves and the quotient times the divisor.
LEMMA RemainderOf ==
  ASSUME NEW w \in Nat \ {0}, NEW x \in Int
  PROVE  x % w \in 0 .. w - 1 /\ x \div w \in Int /\ x = w * (x \div w) + (x % w)
         /\ (x >= 0 => x \div w \in Nat)
OBVIOUS

\* A number below another stays below it by a whole multiple.
LEMMA ProductBelow ==
  ASSUME NEW a \in Nat, NEW b \in Nat, NEW m \in Nat
  PROVE  /\ a * m \in Nat /\ (a <= b => a * m <= b * m)
         /\ (a < b => a * m + m <= b * m)
         /\ (m > 0 /\ a * m < b * m => a < b)
         /\ (m > 0 => a <= a * m)
<1>1. a * m \in Nat /\ b * m \in Nat /\ (a + 1) * m = a * m + m
  OBVIOUS
<1>2. ASSUME NEW x \in Nat, NEW y \in Nat, x <= y PROVE x * m <= y * m
  <2> DEFINE z == y - x
  <2>1. z \in Nat /\ y = x + z
    BY <1>2
  <2> HIDE DEF z
  <2>2. y * m = x * m + z * m /\ z * m \in Nat /\ x * m \in Nat
    BY <2>1
  <2> QED
    BY <2>2
<1>3. a < b => a * m + m <= b * m
  <2> SUFFICES ASSUME a < b PROVE a * m + m <= b * m
    OBVIOUS
  <2>1. a + 1 \in Nat /\ a + 1 <= b
    OBVIOUS
  <2>2. (a + 1) * m <= b * m
    BY <1>2, <2>1
  <2> QED
    BY <1>1, <2>2
<1>4. m > 0 /\ a * m < b * m => a < b
  <2>1. b <= a => b * m <= a * m
    BY <1>2
  <2> QED
    BY <1>1, <2>1
<1>5. m > 0 => a <= a * m
  <2> SUFFICES ASSUME m > 0 PROVE a <= a * m
    OBVIOUS
  <2>1. m - 1 \in Nat /\ a * m = a * (m - 1) + a /\ a * (m - 1) \in Nat
    OBVIOUS
  <2> QED
    BY <2>1
<1> QED
  BY <1>1, <1>2, <1>3, <1>4, <1>5

\* The greatest of a set of numbers that has one and ends somewhere; and the
\* least.
LEMMA MaxIs ==
  ASSUME NEW b \in Nat, NEW S \in SUBSET (0 .. b), S # {}
  PROVE  Max(S) \in S /\ \A x \in S : x <= Max(S)
<1> DEFINE R == {y \in 0 .. b : b - y \in S}
<1>1. R \in SUBSET Nat /\ R # {}
  <2>1. PICK x \in S : TRUE
    OBVIOUS
  <2>2. b - x \in 0 .. b /\ b - (b - x) = x
    OBVIOUS
  <2> QED BY <2>2
<1>2. PICK y \in R : \A z \in R : y <= z
  <2> HIDE DEF R
  <2> QED BY <1>1, NatLeast
<1>3. b - y \in S /\ y \in 0 .. b
  BY <1>2
<1>4. ASSUME NEW x \in S PROVE x <= b - y
  <2>1. b - x \in 0 .. b /\ b - (b - x) = x
    OBVIOUS
  <2>2. y <= b - x
    BY <1>2, <2>1
  <2> QED BY <1>3, <2>1, <2>2
<1>5. \E m \in S : \A x \in S : m >= x
  <2>1. \A x \in S : b - y >= x
    BY <1>3, <1>4
  <2> QED BY <1>3, <2>1
<1>6. Max(S) \in S /\ \A x \in S : Max(S) >= x
  BY <1>5 DEF Max
<1> QED BY <1>6

\* The least of a set of numbers that has one.
LEMMA MinIs ==
  ASSUME NEW S \in SUBSET Nat, S # {}
  PROVE  Min(S) \in S /\ \A x \in S : Min(S) <= x
<1>1. \E m \in S : \A x \in S : m <= x
  BY NatLeast
<1> QED BY <1>1 DEF Min

\* The lesser of two numbers.
LEMMA MinOfTwo ==
  ASSUME NEW a \in Nat, NEW b \in Nat
  PROVE  Min({a, b}) = IF a <= b THEN a ELSE b
<1>1. Min({a, b}) \in {a, b} /\ \A x \in {a, b} : Min({a, b}) <= x
  <2>1. {a, b} \in SUBSET Nat /\ {a, b} # {}
    OBVIOUS
  <2> QED BY <2>1, MinIs
<1> QED BY <1>1

-----------------------------------------------------------------------------
(* What is defined step by step, as equations from step to step.            *)

\* The encoder of lzss_compress, an item at a time.
LEMMA CompressIs ==
  ASSUME NEW data, Len(data) \in Nat
  PROVE  \E Z : /\ lzss_compress(data) = Z[Len(data)].out
               /\ Z[0] = Opened
               /\ \A i \in 1 .. Len(data) : Z[i] = IF Z[i - 1].pos = Len(data)
                    THEN Z[i - 1] ELSE Extended(Z[i - 1], data)
<1> DEFINE Follow(i, p) == IF p.pos = Len(data) THEN p ELSE Extended(p, data)
           Eq(F, k) == F = [i \in 0 .. k |-> IF i = 0 THEN Opened ELSE Follow(i, F[i - 1])]
           Z == CHOOSE F : Eq(F, Len(data))
           T == {k \in 0 .. Len(data) : \E F : Eq(F, k)}
<1>1. lzss_compress(data) = Z[Len(data)].out
  BY DEF lzss_compress
<1> HIDE DEF Follow
<1>2. 0 \in T
  <2> DEFINE F == [i \in 0 .. 0 |-> Opened]
  <2>1. Eq(F, 0)
    OBVIOUS
  <2> HIDE DEF Eq, F
  <2> QED BY <2>1
<1>3. ASSUME NEW k \in 0 .. Len(data) - 1, k \in T PROVE k + 1 \in T
  <2>1. PICK F : Eq(F, k)
    BY <1>3
  <2> DEFINE X == [i \in 0 .. k + 1 |-> IF i = k + 1 THEN Follow(k + 1, F[k]) ELSE F[i]]
  <2>2. \A i \in 0 .. k : i \in 0 .. k + 1 /\ i # k + 1
    OBVIOUS
  <2>3. ASSUME NEW i \in 0 .. k + 1
        PROVE  X[i] = IF i = 0 THEN Opened ELSE Follow(i, X[i - 1])
    <3>1. CASE i = 0
      BY <2>1, <2>2, <3>1
    <3>2. CASE i = k + 1
      <4>1. k \in 0 .. k + 1 /\ k # k + 1 /\ i # 0 /\ i - 1 = k
        BY <3>2
      <4>2. X[i] = Follow(k + 1, F[k]) /\ X[k] = F[k]
        BY <3>2, <4>1
      <4> HIDE DEF X
      <4> QED BY <3>2, <4>1, <4>2
    <3>3. CASE i \in 1 .. k
      <4>1. i \in 0 .. k /\ i # 0 /\ i - 1 \in 0 .. k /\ i # k + 1
        BY <3>3
      <4>2. X[i] = F[i] /\ X[i - 1] = F[i - 1]
        BY <4>1, <2>2
      <4>3. F[i] = Follow(i, F[i - 1])
        BY <2>1, <4>1
      <4> HIDE DEF X, Eq
      <4> QED BY <4>1, <4>2, <4>3
    <3>4. i = 0 \/ i = k + 1 \/ i \in 1 .. k
      OBVIOUS
    <3> QED BY <3>1, <3>2, <3>3, <3>4
  <2>4. X = [i \in 0 .. k + 1 |-> X[i]]
    OBVIOUS
  <2> HIDE DEF X
  <2>5. Eq(X, k + 1)
    BY <2>3, <2>4
  <2>6. k + 1 \in 0 .. Len(data)
    OBVIOUS
  <2> HIDE DEF Eq
  <2> QED BY <2>5, <2>6
<1>4. Len(data) \in T
  <2>1. Steps(T, Len(data))
    <3> HIDE DEF T
    <3> QED BY <1>3 DEF Steps
  <2> HIDE DEF T
  <2>2. Len(data) \in 0 .. Len(data)
    OBVIOUS
  <2> QED BY <1>2, <2>1, <2>2, UpTo
<1>5. Eq(Z, Len(data))
  <2>1. \E F : Eq(F, Len(data))
    BY <1>4
  <2> HIDE DEF Eq
  <2> QED BY <2>1, Zenon
<1> HIDE DEF Z
<1>6. Z[0] = Opened /\ \A i \in 1 .. Len(data) : Z[i] = Follow(i, Z[i - 1])
  <2>1. 0 \in 0 .. Len(data) /\ \A i \in 1 .. Len(data) : i \in 0 .. Len(data) /\ i # 0
    OBVIOUS
  <2> QED BY <1>5, <2>1
<1> QED BY <1>1, <1>6 DEF Follow

\* One step of it.
Decompressed(s, input, size) ==
  IF ~s.ok \/ Len(s.out) = size THEN s
  ELSE IF s.left > 0 THEN Item(s, input, size)
  ELSE IF s.pos >= Len(input) THEN s
  ELSE Taken(s.pos + 1, s.out, ByteAt(input, s.pos), Group)

\* The decoder of lzss_decompress, a byte of flags or an item at a time.
LEMMA DecompressIs ==
  ASSUME NEW input, NEW size, 2 * Len(input) \in Nat
  PROVE  \E Z : /\ lzss_decompress(input, size) = [ok |-> Z[2 * Len(input)].ok
                     /\ Z[2 * Len(input)].pos = Len(input) /\ Len(Z[2 * Len(input)].out) = size,
                          out |-> Z[2 * Len(input)].out]
               /\ Z[0] = Taken(0, <<>>, 0, 0)
               /\ \A i \in 1 .. 2 * Len(input) : Z[i] = Decompressed(Z[i - 1], input, size)
<1> DEFINE Follow(i, p) == Decompressed(p, input, size)
           Eq(F, k) == F = [i \in 0 .. k |-> IF i = 0 THEN Taken(0, <<>>, 0, 0) ELSE Follow(i, F[i - 1])]
           Z == CHOOSE F : Eq(F, 2 * Len(input))
           T == {k \in 0 .. 2 * Len(input) : \E F : Eq(F, k)}
<1>1. lzss_decompress(input, size) = [ok |-> Z[2 * Len(input)].ok /\ Z[2 * Len(input)].pos = Len(input)
          /\ Len(Z[2 * Len(input)].out) = size, out |-> Z[2 * Len(input)].out]
  BY DEF lzss_decompress, Decompressed
<1> HIDE DEF Follow
<1>2. 0 \in T
  <2> DEFINE F == [i \in 0 .. 0 |-> Taken(0, <<>>, 0, 0)]
  <2>1. Eq(F, 0)
    OBVIOUS
  <2> HIDE DEF Eq, F
  <2> QED BY <2>1
<1>3. ASSUME NEW k \in 0 .. 2 * Len(input) - 1, k \in T PROVE k + 1 \in T
  <2>1. PICK F : Eq(F, k)
    BY <1>3
  <2> DEFINE X == [i \in 0 .. k + 1 |-> IF i = k + 1 THEN Follow(k + 1, F[k]) ELSE F[i]]
  <2>2. \A i \in 0 .. k : i \in 0 .. k + 1 /\ i # k + 1
    OBVIOUS
  <2>3. ASSUME NEW i \in 0 .. k + 1
        PROVE  X[i] = IF i = 0 THEN Taken(0, <<>>, 0, 0) ELSE Follow(i, X[i - 1])
    <3>1. CASE i = 0
      BY <2>1, <2>2, <3>1
    <3>2. CASE i = k + 1
      <4>1. k \in 0 .. k + 1 /\ k # k + 1 /\ i # 0 /\ i - 1 = k
        BY <3>2
      <4>2. X[i] = Follow(k + 1, F[k]) /\ X[k] = F[k]
        BY <3>2, <4>1
      <4> HIDE DEF X
      <4> QED BY <3>2, <4>1, <4>2
    <3>3. CASE i \in 1 .. k
      <4>1. i \in 0 .. k /\ i # 0 /\ i - 1 \in 0 .. k /\ i # k + 1
        BY <3>3
      <4>2. X[i] = F[i] /\ X[i - 1] = F[i - 1]
        BY <4>1, <2>2
      <4>3. F[i] = Follow(i, F[i - 1])
        BY <2>1, <4>1
      <4> HIDE DEF X, Eq
      <4> QED BY <4>1, <4>2, <4>3
    <3>4. i = 0 \/ i = k + 1 \/ i \in 1 .. k
      OBVIOUS
    <3> QED BY <3>1, <3>2, <3>3, <3>4
  <2>4. X = [i \in 0 .. k + 1 |-> X[i]]
    OBVIOUS
  <2> HIDE DEF X
  <2>5. Eq(X, k + 1)
    BY <2>3, <2>4
  <2>6. k + 1 \in 0 .. 2 * Len(input)
    OBVIOUS
  <2> HIDE DEF Eq
  <2> QED BY <2>5, <2>6
<1>4. 2 * Len(input) \in T
  <2>1. Steps(T, 2 * Len(input))
    <3> HIDE DEF T
    <3> QED BY <1>3 DEF Steps
  <2> HIDE DEF T
  <2>2. 2 * Len(input) \in 0 .. 2 * Len(input)
    OBVIOUS
  <2> QED BY <1>2, <2>1, <2>2, UpTo
<1>5. Eq(Z, 2 * Len(input))
  <2>1. \E F : Eq(F, 2 * Len(input))
    BY <1>4
  <2> HIDE DEF Eq
  <2> QED BY <2>1, Zenon
<1> HIDE DEF Z
<1>6. Z[0] = Taken(0, <<>>, 0, 0) /\ \A i \in 1 .. 2 * Len(input) : Z[i] = Follow(i, Z[i - 1])
  <2>1. 0 \in 0 .. 2 * Len(input) /\ \A i \in 1 .. 2 * Len(input) : i \in 0 .. 2 * Len(input) /\ i # 0
    OBVIOUS
  <2> QED BY <1>5, <2>1
<1> QED BY <1>1, <1>6 DEF Follow

\* A byte of Packed, bit by bit.
LEMMA PackedIs ==
  ASSUME NEW tile, NEW b \in 1 .. TileBytes, Octet \in Nat
  PROVE  \E Z : /\ Packed(tile)[b] = Z[Octet]
               /\ Z[0] = 0
               /\ \A i \in 1 .. Octet : Z[i] = 2 * Z[i - 1] + tile[(b - 1) * Octet + i - 1]
<1> DEFINE Follow(i, p) == 2 * p + tile[(b - 1) * Octet + i - 1]
           Eq(F, k) == F = [i \in 0 .. k |-> IF i = 0 THEN 0 ELSE Follow(i, F[i - 1])]
           Z == CHOOSE F : Eq(F, Octet)
           T == {k \in 0 .. Octet : \E F : Eq(F, k)}
<1>1. Packed(tile)[b] = Z[Octet]
  BY DEF Packed
<1> HIDE DEF Follow
<1>2. 0 \in T
  <2> DEFINE F == [i \in 0 .. 0 |-> 0]
  <2>1. Eq(F, 0)
    OBVIOUS
  <2> HIDE DEF Eq, F
  <2> QED BY <2>1
<1>3. ASSUME NEW k \in 0 .. Octet - 1, k \in T PROVE k + 1 \in T
  <2>1. PICK F : Eq(F, k)
    BY <1>3
  <2> DEFINE X == [i \in 0 .. k + 1 |-> IF i = k + 1 THEN Follow(k + 1, F[k]) ELSE F[i]]
  <2>2. \A i \in 0 .. k : i \in 0 .. k + 1 /\ i # k + 1
    OBVIOUS
  <2>3. ASSUME NEW i \in 0 .. k + 1
        PROVE  X[i] = IF i = 0 THEN 0 ELSE Follow(i, X[i - 1])
    <3>1. CASE i = 0
      BY <2>1, <2>2, <3>1
    <3>2. CASE i = k + 1
      <4>1. k \in 0 .. k + 1 /\ k # k + 1 /\ i # 0 /\ i - 1 = k
        BY <3>2
      <4>2. X[i] = Follow(k + 1, F[k]) /\ X[k] = F[k]
        BY <3>2, <4>1
      <4> HIDE DEF X
      <4> QED BY <3>2, <4>1, <4>2
    <3>3. CASE i \in 1 .. k
      <4>1. i \in 0 .. k /\ i # 0 /\ i - 1 \in 0 .. k /\ i # k + 1
        BY <3>3
      <4>2. X[i] = F[i] /\ X[i - 1] = F[i - 1]
        BY <4>1, <2>2
      <4>3. F[i] = Follow(i, F[i - 1])
        BY <2>1, <4>1
      <4> HIDE DEF X, Eq
      <4> QED BY <4>1, <4>2, <4>3
    <3>4. i = 0 \/ i = k + 1 \/ i \in 1 .. k
      OBVIOUS
    <3> QED BY <3>1, <3>2, <3>3, <3>4
  <2>4. X = [i \in 0 .. k + 1 |-> X[i]]
    OBVIOUS
  <2> HIDE DEF X
  <2>5. Eq(X, k + 1)
    BY <2>3, <2>4
  <2>6. k + 1 \in 0 .. Octet
    OBVIOUS
  <2> HIDE DEF Eq
  <2> QED BY <2>5, <2>6
<1>4. Octet \in T
  <2>1. Steps(T, Octet)
    <3> HIDE DEF T
    <3> QED BY <1>3 DEF Steps
  <2> HIDE DEF T
  <2>2. Octet \in 0 .. Octet
    OBVIOUS
  <2> QED BY <1>2, <2>1, <2>2, UpTo
<1>5. Eq(Z, Octet)
  <2>1. \E F : Eq(F, Octet)
    BY <1>4
  <2> HIDE DEF Eq
  <2> QED BY <2>1, Zenon
<1> HIDE DEF Z
<1>6. Z[0] = 0 /\ \A i \in 1 .. Octet : Z[i] = Follow(i, Z[i - 1])
  <2>1. 0 \in 0 .. Octet /\ \A i \in 1 .. Octet : i \in 0 .. Octet /\ i # 0
    OBVIOUS
  <2> QED BY <1>5, <2>1
<1> QED BY <1>1, <1>6 DEF Follow

\* The runs of encode_tile_rle.
LEMMA RunsWritten ==
  ASSUME NEW tile, TilePixels \in Nat
  PROVE  \E Z : /\ encode_tile_rle(tile) = Z[TilePixels].out
               /\ Z[0] = [pos |-> 0, out |-> <<>>]
               /\ \A i \in 1 .. TilePixels : Z[i] = IF Z[i - 1].pos = TilePixels
                    THEN Z[i - 1] ELSE [pos |-> Z[i - 1].pos + RunLength(tile, Z[i - 1].pos),
                        out |-> Append(Z[i - 1].out, Token(RunLength(tile, Z[i - 1].pos), tile[Z[i - 1].pos]))]
<1> DEFINE Follow(i, p) == IF p.pos = TilePixels THEN p ELSE [pos |-> p.pos + RunLength(tile, p.pos),
               out |-> Append(p.out, Token(RunLength(tile, p.pos), tile[p.pos]))]
           Eq(F, k) == F = [i \in 0 .. k |-> IF i = 0 THEN [pos |-> 0, out |-> <<>>] ELSE Follow(i, F[i - 1])]
           Z == CHOOSE F : Eq(F, TilePixels)
           T == {k \in 0 .. TilePixels : \E F : Eq(F, k)}
<1>1. encode_tile_rle(tile) = Z[TilePixels].out
  BY DEF encode_tile_rle
<1> HIDE DEF Follow
<1>2. 0 \in T
  <2> DEFINE F == [i \in 0 .. 0 |-> [pos |-> 0, out |-> <<>>]]
  <2>1. Eq(F, 0)
    OBVIOUS
  <2> HIDE DEF Eq, F
  <2> QED BY <2>1
<1>3. ASSUME NEW k \in 0 .. TilePixels - 1, k \in T PROVE k + 1 \in T
  <2>1. PICK F : Eq(F, k)
    BY <1>3
  <2> DEFINE X == [i \in 0 .. k + 1 |-> IF i = k + 1 THEN Follow(k + 1, F[k]) ELSE F[i]]
  <2>2. \A i \in 0 .. k : i \in 0 .. k + 1 /\ i # k + 1
    OBVIOUS
  <2>3. ASSUME NEW i \in 0 .. k + 1
        PROVE  X[i] = IF i = 0 THEN [pos |-> 0, out |-> <<>>] ELSE Follow(i, X[i - 1])
    <3>1. CASE i = 0
      BY <2>1, <2>2, <3>1
    <3>2. CASE i = k + 1
      <4>1. k \in 0 .. k + 1 /\ k # k + 1 /\ i # 0 /\ i - 1 = k
        BY <3>2
      <4>2. X[i] = Follow(k + 1, F[k]) /\ X[k] = F[k]
        BY <3>2, <4>1
      <4> HIDE DEF X
      <4> QED BY <3>2, <4>1, <4>2
    <3>3. CASE i \in 1 .. k
      <4>1. i \in 0 .. k /\ i # 0 /\ i - 1 \in 0 .. k /\ i # k + 1
        BY <3>3
      <4>2. X[i] = F[i] /\ X[i - 1] = F[i - 1]
        BY <4>1, <2>2
      <4>3. F[i] = Follow(i, F[i - 1])
        BY <2>1, <4>1
      <4> HIDE DEF X, Eq
      <4> QED BY <4>1, <4>2, <4>3
    <3>4. i = 0 \/ i = k + 1 \/ i \in 1 .. k
      OBVIOUS
    <3> QED BY <3>1, <3>2, <3>3, <3>4
  <2>4. X = [i \in 0 .. k + 1 |-> X[i]]
    OBVIOUS
  <2> HIDE DEF X
  <2>5. Eq(X, k + 1)
    BY <2>3, <2>4
  <2>6. k + 1 \in 0 .. TilePixels
    OBVIOUS
  <2> HIDE DEF Eq
  <2> QED BY <2>5, <2>6
<1>4. TilePixels \in T
  <2>1. Steps(T, TilePixels)
    <3> HIDE DEF T
    <3> QED BY <1>3 DEF Steps
  <2> HIDE DEF T
  <2>2. TilePixels \in 0 .. TilePixels
    OBVIOUS
  <2> QED BY <1>2, <2>1, <2>2, UpTo
<1>5. Eq(Z, TilePixels)
  <2>1. \E F : Eq(F, TilePixels)
    BY <1>4
  <2> HIDE DEF Eq
  <2> QED BY <2>1, Zenon
<1> HIDE DEF Z
<1>6. Z[0] = [pos |-> 0, out |-> <<>>] /\ \A i \in 1 .. TilePixels : Z[i] = Follow(i, Z[i - 1])
  <2>1. 0 \in 0 .. TilePixels /\ \A i \in 1 .. TilePixels : i \in 0 .. TilePixels /\ i # 0
    OBVIOUS
  <2> QED BY <1>5, <2>1
<1> QED BY <1>1, <1>6 DEF Follow

\* The places of the ones of a tile.
LEMMA OnesIs ==
  ASSUME NEW tile, TilePixels \in Nat
  PROVE  \E Z : /\ Ones(tile) = Z[TilePixels]
               /\ Z[0] = <<>>
               /\ \A i \in 1 .. TilePixels : Z[i] = IF tile[i - 1] = 1 THEN Append(Z[i - 1], i - 1) ELSE Z[i - 1]
<1> DEFINE Follow(i, p) == IF tile[i - 1] = 1 THEN Append(p, i - 1) ELSE p
           Eq(F, k) == F = [i \in 0 .. k |-> IF i = 0 THEN <<>> ELSE Follow(i, F[i - 1])]
           Z == CHOOSE F : Eq(F, TilePixels)
           T == {k \in 0 .. TilePixels : \E F : Eq(F, k)}
<1>1. Ones(tile) = Z[TilePixels]
  BY DEF Ones
<1> HIDE DEF Follow
<1>2. 0 \in T
  <2> DEFINE F == [i \in 0 .. 0 |-> <<>>]
  <2>1. Eq(F, 0)
    OBVIOUS
  <2> HIDE DEF Eq, F
  <2> QED BY <2>1
<1>3. ASSUME NEW k \in 0 .. TilePixels - 1, k \in T PROVE k + 1 \in T
  <2>1. PICK F : Eq(F, k)
    BY <1>3
  <2> DEFINE X == [i \in 0 .. k + 1 |-> IF i = k + 1 THEN Follow(k + 1, F[k]) ELSE F[i]]
  <2>2. \A i \in 0 .. k : i \in 0 .. k + 1 /\ i # k + 1
    OBVIOUS
  <2>3. ASSUME NEW i \in 0 .. k + 1
        PROVE  X[i] = IF i = 0 THEN <<>> ELSE Follow(i, X[i - 1])
    <3>1. CASE i = 0
      BY <2>1, <2>2, <3>1
    <3>2. CASE i = k + 1
      <4>1. k \in 0 .. k + 1 /\ k # k + 1 /\ i # 0 /\ i - 1 = k
        BY <3>2
      <4>2. X[i] = Follow(k + 1, F[k]) /\ X[k] = F[k]
        BY <3>2, <4>1
      <4> HIDE DEF X
      <4> QED BY <3>2, <4>1, <4>2
    <3>3. CASE i \in 1 .. k
      <4>1. i \in 0 .. k /\ i # 0 /\ i - 1 \in 0 .. k /\ i # k + 1
        BY <3>3
      <4>2. X[i] = F[i] /\ X[i - 1] = F[i - 1]
        BY <4>1, <2>2
      <4>3. F[i] = Follow(i, F[i - 1])
        BY <2>1, <4>1
      <4> HIDE DEF X, Eq
      <4> QED BY <4>1, <4>2, <4>3
    <3>4. i = 0 \/ i = k + 1 \/ i \in 1 .. k
      OBVIOUS
    <3> QED BY <3>1, <3>2, <3>3, <3>4
  <2>4. X = [i \in 0 .. k + 1 |-> X[i]]
    OBVIOUS
  <2> HIDE DEF X
  <2>5. Eq(X, k + 1)
    BY <2>3, <2>4
  <2>6. k + 1 \in 0 .. TilePixels
    OBVIOUS
  <2> HIDE DEF Eq
  <2> QED BY <2>5, <2>6
<1>4. TilePixels \in T
  <2>1. Steps(T, TilePixels)
    <3> HIDE DEF T
    <3> QED BY <1>3 DEF Steps
  <2> HIDE DEF T
  <2>2. TilePixels \in 0 .. TilePixels
    OBVIOUS
  <2> QED BY <1>2, <2>1, <2>2, UpTo
<1>5. Eq(Z, TilePixels)
  <2>1. \E F : Eq(F, TilePixels)
    BY <1>4
  <2> HIDE DEF Eq
  <2> QED BY <2>1, Zenon
<1> HIDE DEF Z
<1>6. Z[0] = <<>> /\ \A i \in 1 .. TilePixels : Z[i] = Follow(i, Z[i - 1])
  <2>1. 0 \in 0 .. TilePixels /\ \A i \in 1 .. TilePixels : i \in 0 .. TilePixels /\ i # 0
    OBVIOUS
  <2> QED BY <1>5, <2>1
<1> QED BY <1>1, <1>6 DEF Follow

\* The tiles of encode_frame.
LEMMA EncodeIs ==
  ASSUME NEW current, NEW previous, TileCount \in Nat
  PROVE  \E Z : /\ encode_frame(current, previous) = Z[TileCount]
               /\ Z[0] = [bytes |-> <<>>, next |-> 0, changed |-> 0]
               /\ \A i \in 1 .. TileCount : Z[i] = IF TileOf(current, i - 1) = TileOf(previous, i - 1)
                    THEN Z[i - 1] ELSE Emitted(Z[i - 1], i - 1, Encoding(TileOf(current, i - 1), TileOf(previous, i - 1)))
<1> DEFINE Follow(i, p) == IF TileOf(current, i - 1) = TileOf(previous, i - 1)
               THEN p ELSE Emitted(p, i - 1, Encoding(TileOf(current, i - 1), TileOf(previous, i - 1)))
           Eq(F, k) == F = [i \in 0 .. k |-> IF i = 0 THEN [bytes |-> <<>>, next |-> 0, changed |-> 0]
               ELSE Follow(i, F[i - 1])]
           Z == CHOOSE F : Eq(F, TileCount)
           T == {k \in 0 .. TileCount : \E F : Eq(F, k)}
<1>1. encode_frame(current, previous) = Z[TileCount]
  BY DEF encode_frame
<1> HIDE DEF Follow
<1>2. 0 \in T
  <2> DEFINE F == [i \in 0 .. 0 |-> [bytes |-> <<>>, next |-> 0, changed |-> 0]]
  <2>1. Eq(F, 0)
    OBVIOUS
  <2> HIDE DEF Eq, F
  <2> QED BY <2>1
<1>3. ASSUME NEW k \in 0 .. TileCount - 1, k \in T PROVE k + 1 \in T
  <2>1. PICK F : Eq(F, k)
    BY <1>3
  <2> DEFINE X == [i \in 0 .. k + 1 |-> IF i = k + 1 THEN Follow(k + 1, F[k]) ELSE F[i]]
  <2>2. \A i \in 0 .. k : i \in 0 .. k + 1 /\ i # k + 1
    OBVIOUS
  <2>3. ASSUME NEW i \in 0 .. k + 1
        PROVE  X[i] = IF i = 0 THEN [bytes |-> <<>>, next |-> 0, changed |-> 0] ELSE Follow(i, X[i - 1])
    <3>1. CASE i = 0
      BY <2>1, <2>2, <3>1
    <3>2. CASE i = k + 1
      <4>1. k \in 0 .. k + 1 /\ k # k + 1 /\ i # 0 /\ i - 1 = k
        BY <3>2
      <4>2. X[i] = Follow(k + 1, F[k]) /\ X[k] = F[k]
        BY <3>2, <4>1
      <4> HIDE DEF X
      <4> QED BY <3>2, <4>1, <4>2
    <3>3. CASE i \in 1 .. k
      <4>1. i \in 0 .. k /\ i # 0 /\ i - 1 \in 0 .. k /\ i # k + 1
        BY <3>3
      <4>2. X[i] = F[i] /\ X[i - 1] = F[i - 1]
        BY <4>1, <2>2
      <4>3. F[i] = Follow(i, F[i - 1])
        BY <2>1, <4>1
      <4> HIDE DEF X, Eq
      <4> QED BY <4>1, <4>2, <4>3
    <3>4. i = 0 \/ i = k + 1 \/ i \in 1 .. k
      OBVIOUS
    <3> QED BY <3>1, <3>2, <3>3, <3>4
  <2>4. X = [i \in 0 .. k + 1 |-> X[i]]
    OBVIOUS
  <2> HIDE DEF X
  <2>5. Eq(X, k + 1)
    BY <2>3, <2>4
  <2>6. k + 1 \in 0 .. TileCount
    OBVIOUS
  <2> HIDE DEF Eq
  <2> QED BY <2>5, <2>6
<1>4. TileCount \in T
  <2>1. Steps(T, TileCount)
    <3> HIDE DEF T
    <3> QED BY <1>3 DEF Steps
  <2> HIDE DEF T
  <2>2. TileCount \in 0 .. TileCount
    OBVIOUS
  <2> QED BY <1>2, <2>1, <2>2, UpTo
<1>5. Eq(Z, TileCount)
  <2>1. \E F : Eq(F, TileCount)
    BY <1>4
  <2> HIDE DEF Eq
  <2> QED BY <2>1, Zenon
<1> HIDE DEF Z
<1>6. Z[0] = [bytes |-> <<>>, next |-> 0, changed |-> 0] /\ \A i \in 1 .. TileCount : Z[i] = Follow(i, Z[i - 1])
  <2>1. 0 \in 0 .. TileCount /\ \A i \in 1 .. TileCount : i \in 0 .. TileCount /\ i # 0
    OBVIOUS
  <2> QED BY <1>5, <2>1
<1> QED BY <1>1, <1>6 DEF Follow

\* One tile of a frame in colours.
ColorEmitted(before, t, current, previous, min) ==
  LET tile == TileOf(current, t - 1)
      old == TileOf(previous, t - 1)
      new == Rendered(tile)
      code == ColorEncoding(tile)
  IN IF Cardinality({k \in DOMAIN new : new[k] # old[k]}) < min THEN before
     ELSE [bytes |-> before.bytes \o emit_tile_command(t - 1, code.mode, before.next) \o code.bytes,
           next |-> t, changed |-> before.changed + 1, shown |-> Put(before.shown, t - 1, new)]

\* The tiles of color_encode_frame.
LEMMA ColorEncodeIs ==
  ASSUME NEW current, NEW previous, NEW min, TileCount \in Nat
  PROVE  \E Z : /\ color_encode_frame(current, previous, min) = Z[TileCount]
               /\ Z[0] = [bytes |-> <<>>, next |-> 0, changed |-> 0, shown |-> previous]
               /\ \A i \in 1 .. TileCount : Z[i] = ColorEmitted(Z[i - 1], i, current, previous, min)
<1> DEFINE Follow(i, p) == ColorEmitted(p, i, current, previous, min)
           Eq(F, k) == F = [i \in 0 .. k |-> IF i = 0 THEN [bytes |-> <<>>, next |-> 0, changed |-> 0, shown |-> previous] ELSE Follow(i, F[i - 1])]
           Z == CHOOSE F : Eq(F, TileCount)
           T == {k \in 0 .. TileCount : \E F : Eq(F, k)}
<1>1. color_encode_frame(current, previous, min) = Z[TileCount]
  BY DEF color_encode_frame, ColorEmitted
<1> HIDE DEF Follow
<1>2. 0 \in T
  <2> DEFINE F == [i \in 0 .. 0 |-> [bytes |-> <<>>, next |-> 0, changed |-> 0, shown |-> previous]]
  <2>1. Eq(F, 0)
    OBVIOUS
  <2> HIDE DEF Eq, F
  <2> QED BY <2>1
<1>3. ASSUME NEW k \in 0 .. TileCount - 1, k \in T PROVE k + 1 \in T
  <2>1. PICK F : Eq(F, k)
    BY <1>3
  <2> DEFINE X == [i \in 0 .. k + 1 |-> IF i = k + 1 THEN Follow(k + 1, F[k]) ELSE F[i]]
  <2>2. \A i \in 0 .. k : i \in 0 .. k + 1 /\ i # k + 1
    OBVIOUS
  <2>3. ASSUME NEW i \in 0 .. k + 1
        PROVE  X[i] = IF i = 0 THEN [bytes |-> <<>>, next |-> 0, changed |-> 0, shown |-> previous]
            ELSE Follow(i, X[i - 1])
    <3>1. CASE i = 0
      BY <2>1, <2>2, <3>1
    <3>2. CASE i = k + 1
      <4>1. k \in 0 .. k + 1 /\ k # k + 1 /\ i # 0 /\ i - 1 = k
        BY <3>2
      <4>2. X[i] = Follow(k + 1, F[k]) /\ X[k] = F[k]
        BY <3>2, <4>1
      <4> HIDE DEF X
      <4> QED BY <3>2, <4>1, <4>2
    <3>3. CASE i \in 1 .. k
      <4>1. i \in 0 .. k /\ i # 0 /\ i - 1 \in 0 .. k /\ i # k + 1
        BY <3>3
      <4>2. X[i] = F[i] /\ X[i - 1] = F[i - 1]
        BY <4>1, <2>2
      <4>3. F[i] = Follow(i, F[i - 1])
        BY <2>1, <4>1
      <4> HIDE DEF X, Eq
      <4> QED BY <4>1, <4>2, <4>3
    <3>4. i = 0 \/ i = k + 1 \/ i \in 1 .. k
      OBVIOUS
    <3> QED BY <3>1, <3>2, <3>3, <3>4
  <2>4. X = [i \in 0 .. k + 1 |-> X[i]]
    OBVIOUS
  <2> HIDE DEF X
  <2>5. Eq(X, k + 1)
    BY <2>3, <2>4
  <2>6. k + 1 \in 0 .. TileCount
    OBVIOUS
  <2> HIDE DEF Eq
  <2> QED BY <2>5, <2>6
<1>4. TileCount \in T
  <2>1. Steps(T, TileCount)
    <3> HIDE DEF T
    <3> QED BY <1>3 DEF Steps
  <2> HIDE DEF T
  <2>2. TileCount \in 0 .. TileCount
    OBVIOUS
  <2> QED BY <1>2, <2>1, <2>2, UpTo
<1>5. Eq(Z, TileCount)
  <2>1. \E F : Eq(F, TileCount)
    BY <1>4
  <2> HIDE DEF Eq
  <2> QED BY <2>1, Zenon
<1> HIDE DEF Z
<1>6. Z[0] = [bytes |-> <<>>, next |-> 0, changed |-> 0, shown |-> previous]
          /\ \A i \in 1 .. TileCount : Z[i] = Follow(i, Z[i - 1])
  <2>1. 0 \in 0 .. TileCount /\ \A i \in 1 .. TileCount : i \in 0 .. TileCount /\ i # 0
    OBVIOUS
  <2> QED BY <1>5, <2>1
<1> QED BY <1>1, <1>6 DEF Follow

\* One run.
RunTaken(before, token, tile) ==
  LET run == token % (RunMax + 1)
      on == token \div (RunMax + 1)
  IN Decoded([k \in DOMAIN tile |->
                IF k \in before.pos .. before.pos + run - 1 THEN on ELSE before.tile[k]],
             Min({before.pos + run, TilePixels}))

\* The runs as the player takes them.
LEMMA RunsIs ==
  ASSUME NEW data, NEW first, NEW count, NEW tile, count \in Nat
  PROVE  \E Z : /\ Runs(data, first, count, tile) = Z[count].tile
               /\ Z[0] = Decoded(tile, 0)
               /\ \A i \in 1 .. count : Z[i] = RunTaken(Z[i - 1], ByteAt(data, first + i - 1), tile)
<1> DEFINE Follow(i, p) == RunTaken(p, ByteAt(data, first + i - 1), tile)
           Eq(F, k) == F = [i \in 0 .. k |-> IF i = 0 THEN Decoded(tile, 0) ELSE Follow(i, F[i - 1])]
           Z == CHOOSE F : Eq(F, count)
           T == {k \in 0 .. count : \E F : Eq(F, k)}
<1>1. Runs(data, first, count, tile) = Z[count].tile
  BY DEF Runs, RunTaken
<1> HIDE DEF Follow
<1>2. 0 \in T
  <2> DEFINE F == [i \in 0 .. 0 |-> Decoded(tile, 0)]
  <2>1. Eq(F, 0)
    OBVIOUS
  <2> HIDE DEF Eq, F
  <2> QED BY <2>1
<1>3. ASSUME NEW k \in 0 .. count - 1, k \in T PROVE k + 1 \in T
  <2>1. PICK F : Eq(F, k)
    BY <1>3
  <2> DEFINE X == [i \in 0 .. k + 1 |-> IF i = k + 1 THEN Follow(k + 1, F[k]) ELSE F[i]]
  <2>2. \A i \in 0 .. k : i \in 0 .. k + 1 /\ i # k + 1
    OBVIOUS
  <2>3. ASSUME NEW i \in 0 .. k + 1
        PROVE  X[i] = IF i = 0 THEN Decoded(tile, 0) ELSE Follow(i, X[i - 1])
    <3>1. CASE i = 0
      BY <2>1, <2>2, <3>1
    <3>2. CASE i = k + 1
      <4>1. k \in 0 .. k + 1 /\ k # k + 1 /\ i # 0 /\ i - 1 = k
        BY <3>2
      <4>2. X[i] = Follow(k + 1, F[k]) /\ X[k] = F[k]
        BY <3>2, <4>1
      <4> HIDE DEF X
      <4> QED BY <3>2, <4>1, <4>2
    <3>3. CASE i \in 1 .. k
      <4>1. i \in 0 .. k /\ i # 0 /\ i - 1 \in 0 .. k /\ i # k + 1
        BY <3>3
      <4>2. X[i] = F[i] /\ X[i - 1] = F[i - 1]
        BY <4>1, <2>2
      <4>3. F[i] = Follow(i, F[i - 1])
        BY <2>1, <4>1
      <4> HIDE DEF X, Eq
      <4> QED BY <4>1, <4>2, <4>3
    <3>4. i = 0 \/ i = k + 1 \/ i \in 1 .. k
      OBVIOUS
    <3> QED BY <3>1, <3>2, <3>3, <3>4
  <2>4. X = [i \in 0 .. k + 1 |-> X[i]]
    OBVIOUS
  <2> HIDE DEF X
  <2>5. Eq(X, k + 1)
    BY <2>3, <2>4
  <2>6. k + 1 \in 0 .. count
    OBVIOUS
  <2> HIDE DEF Eq
  <2> QED BY <2>5, <2>6
<1>4. count \in T
  <2>1. Steps(T, count)
    <3> HIDE DEF T
    <3> QED BY <1>3 DEF Steps
  <2> HIDE DEF T
  <2>2. count \in 0 .. count
    OBVIOUS
  <2> QED BY <1>2, <2>1, <2>2, UpTo
<1>5. Eq(Z, count)
  <2>1. \E F : Eq(F, count)
    BY <1>4
  <2> HIDE DEF Eq
  <2> QED BY <2>1, Zenon
<1> HIDE DEF Z
<1>6. Z[0] = Decoded(tile, 0) /\ \A i \in 1 .. count : Z[i] = Follow(i, Z[i - 1])
  <2>1. 0 \in 0 .. count /\ \A i \in 1 .. count : i \in 0 .. count /\ i # 0
    OBVIOUS
  <2> QED BY <1>5, <2>1
<1> QED BY <1>1, <1>6 DEF Follow

\* The places of Places, gap after gap.
LEMMA PlacesIs ==
  ASSUME NEW gaps, Len(gaps) \in Nat
  PROVE  \E Z : /\ Places(gaps) = [m \in DOMAIN gaps |-> Z[m]]
               /\ Z[0] = -1
               /\ \A i \in 1 .. Len(gaps) : Z[i] = Z[i - 1] + gaps[i] + 1
<1> DEFINE Follow(i, p) == p + gaps[i] + 1
           Eq(F, k) == F = [i \in 0 .. k |-> IF i = 0 THEN -1 ELSE Follow(i, F[i - 1])]
           Z == CHOOSE F : Eq(F, Len(gaps))
           T == {k \in 0 .. Len(gaps) : \E F : Eq(F, k)}
<1>1. Places(gaps) = [m \in DOMAIN gaps |-> Z[m]]
  BY DEF Places
<1> HIDE DEF Follow
<1>2. 0 \in T
  <2> DEFINE F == [i \in 0 .. 0 |-> -1]
  <2>1. Eq(F, 0)
    OBVIOUS
  <2> HIDE DEF Eq, F
  <2> QED BY <2>1
<1>3. ASSUME NEW k \in 0 .. Len(gaps) - 1, k \in T PROVE k + 1 \in T
  <2>1. PICK F : Eq(F, k)
    BY <1>3
  <2> DEFINE X == [i \in 0 .. k + 1 |-> IF i = k + 1 THEN Follow(k + 1, F[k]) ELSE F[i]]
  <2>2. \A i \in 0 .. k : i \in 0 .. k + 1 /\ i # k + 1
    OBVIOUS
  <2>3. ASSUME NEW i \in 0 .. k + 1
        PROVE  X[i] = IF i = 0 THEN -1 ELSE Follow(i, X[i - 1])
    <3>1. CASE i = 0
      BY <2>1, <2>2, <3>1
    <3>2. CASE i = k + 1
      <4>1. k \in 0 .. k + 1 /\ k # k + 1 /\ i # 0 /\ i - 1 = k
        BY <3>2
      <4>2. X[i] = Follow(k + 1, F[k]) /\ X[k] = F[k]
        BY <3>2, <4>1
      <4> HIDE DEF X
      <4> QED BY <3>2, <4>1, <4>2
    <3>3. CASE i \in 1 .. k
      <4>1. i \in 0 .. k /\ i # 0 /\ i - 1 \in 0 .. k /\ i # k + 1
        BY <3>3
      <4>2. X[i] = F[i] /\ X[i - 1] = F[i - 1]
        BY <4>1, <2>2
      <4>3. F[i] = Follow(i, F[i - 1])
        BY <2>1, <4>1
      <4> HIDE DEF X, Eq
      <4> QED BY <4>1, <4>2, <4>3
    <3>4. i = 0 \/ i = k + 1 \/ i \in 1 .. k
      OBVIOUS
    <3> QED BY <3>1, <3>2, <3>3, <3>4
  <2>4. X = [i \in 0 .. k + 1 |-> X[i]]
    OBVIOUS
  <2> HIDE DEF X
  <2>5. Eq(X, k + 1)
    BY <2>3, <2>4
  <2>6. k + 1 \in 0 .. Len(gaps)
    OBVIOUS
  <2> HIDE DEF Eq
  <2> QED BY <2>5, <2>6
<1>4. Len(gaps) \in T
  <2>1. Steps(T, Len(gaps))
    <3> HIDE DEF T
    <3> QED BY <1>3 DEF Steps
  <2> HIDE DEF T
  <2>2. Len(gaps) \in 0 .. Len(gaps)
    OBVIOUS
  <2> QED BY <1>2, <2>1, <2>2, UpTo
<1>5. Eq(Z, Len(gaps))
  <2>1. \E F : Eq(F, Len(gaps))
    BY <1>4
  <2> HIDE DEF Eq
  <2> QED BY <2>1, Zenon
<1> HIDE DEF Z
<1>6. Z[0] = -1 /\ \A i \in 1 .. Len(gaps) : Z[i] = Follow(i, Z[i - 1])
  <2>1. 0 \in 0 .. Len(gaps) /\ \A i \in 1 .. Len(gaps) : i \in 0 .. Len(gaps) /\ i # 0
    OBVIOUS
  <2> QED BY <1>5, <2>1
<1> QED BY <1>1, <1>6 DEF Follow

\* The pixels flipped, where every place is one of the tile.
LEMMA FlippedIs ==
  ASSUME NEW tile, NEW places, \A m \in DOMAIN places : ~(places[m] >= TilePixels), Len(places) \in Nat
  PROVE  \E Z : /\ Flipped(tile, places) = [tile |-> Z[Len(places)], whole |-> TRUE]
               /\ Z[0] = tile
               /\ \A i \in 1 .. Len(places) : Z[i] = Flip(Z[i - 1], places[i])
<1> DEFINE Follow(i, p) == Flip(p, places[i])
           Eq(F, k) == F = [i \in 0 .. k |-> IF i = 0 THEN tile ELSE Follow(i, F[i - 1])]
           Z == CHOOSE F : Eq(F, Len(places))
           T == {k \in 0 .. Len(places) : \E F : Eq(F, k)}
<1>1. Flipped(tile, places) = [tile |-> Z[Len(places)], whole |-> TRUE]
  <2>1. {m \in DOMAIN places : places[m] >= TilePixels} = {}
    OBVIOUS
  <2> QED BY <2>1 DEF Flipped
<1> HIDE DEF Follow
<1>2. 0 \in T
  <2> DEFINE F == [i \in 0 .. 0 |-> tile]
  <2>1. Eq(F, 0)
    OBVIOUS
  <2> HIDE DEF Eq, F
  <2> QED BY <2>1
<1>3. ASSUME NEW k \in 0 .. Len(places) - 1, k \in T PROVE k + 1 \in T
  <2>1. PICK F : Eq(F, k)
    BY <1>3
  <2> DEFINE X == [i \in 0 .. k + 1 |-> IF i = k + 1 THEN Follow(k + 1, F[k]) ELSE F[i]]
  <2>2. \A i \in 0 .. k : i \in 0 .. k + 1 /\ i # k + 1
    OBVIOUS
  <2>3. ASSUME NEW i \in 0 .. k + 1
        PROVE  X[i] = IF i = 0 THEN tile ELSE Follow(i, X[i - 1])
    <3>1. CASE i = 0
      BY <2>1, <2>2, <3>1
    <3>2. CASE i = k + 1
      <4>1. k \in 0 .. k + 1 /\ k # k + 1 /\ i # 0 /\ i - 1 = k
        BY <3>2
      <4>2. X[i] = Follow(k + 1, F[k]) /\ X[k] = F[k]
        BY <3>2, <4>1
      <4> HIDE DEF X
      <4> QED BY <3>2, <4>1, <4>2
    <3>3. CASE i \in 1 .. k
      <4>1. i \in 0 .. k /\ i # 0 /\ i - 1 \in 0 .. k /\ i # k + 1
        BY <3>3
      <4>2. X[i] = F[i] /\ X[i - 1] = F[i - 1]
        BY <4>1, <2>2
      <4>3. F[i] = Follow(i, F[i - 1])
        BY <2>1, <4>1
      <4> HIDE DEF X, Eq
      <4> QED BY <4>1, <4>2, <4>3
    <3>4. i = 0 \/ i = k + 1 \/ i \in 1 .. k
      OBVIOUS
    <3> QED BY <3>1, <3>2, <3>3, <3>4
  <2>4. X = [i \in 0 .. k + 1 |-> X[i]]
    OBVIOUS
  <2> HIDE DEF X
  <2>5. Eq(X, k + 1)
    BY <2>3, <2>4
  <2>6. k + 1 \in 0 .. Len(places)
    OBVIOUS
  <2> HIDE DEF Eq
  <2> QED BY <2>5, <2>6
<1>4. Len(places) \in T
  <2>1. Steps(T, Len(places))
    <3> HIDE DEF T
    <3> QED BY <1>3 DEF Steps
  <2> HIDE DEF T
  <2>2. Len(places) \in 0 .. Len(places)
    OBVIOUS
  <2> QED BY <1>2, <2>1, <2>2, UpTo
<1>5. Eq(Z, Len(places))
  <2>1. \E F : Eq(F, Len(places))
    BY <1>4
  <2> HIDE DEF Eq
  <2> QED BY <2>1, Zenon
<1> HIDE DEF Z
<1>6. Z[0] = tile /\ \A i \in 1 .. Len(places) : Z[i] = Follow(i, Z[i - 1])
  <2>1. 0 \in 0 .. Len(places) /\ \A i \in 1 .. Len(places) : i \in 0 .. Len(places) /\ i # 0
    OBVIOUS
  <2> QED BY <1>5, <2>1
<1> QED BY <1>1, <1>6 DEF Follow

\* The analyzer's.
LEMMA ParsedIs ==
  ASSUME NEW data, Len(data) \in Nat
  PROVE  \E Z : /\ Parsed(data) = Z[Len(data)]
               /\ Z[0] = [ok |-> TRUE, pos |-> 0, next |-> 0, tiles |-> 0]
               /\ \A i \in 1 .. Len(data) : Z[i] = IF ~Z[i - 1].ok \/ Z[i - 1].pos >= Len(data)
                    THEN Z[i - 1] ELSE StepOver(Z[i - 1], data, Command(data, Z[i - 1].pos, Z[i - 1].next))
<1> DEFINE Follow(i, p) == IF ~p.ok \/ p.pos >= Len(data) THEN p ELSE StepOver(p, data, Command(data, p.pos, p.next))
           Eq(F, k) == F = [i \in 0 .. k |-> IF i = 0 THEN [ok |-> TRUE, pos |-> 0, next |-> 0, tiles |-> 0]
               ELSE Follow(i, F[i - 1])]
           Z == CHOOSE F : Eq(F, Len(data))
           T == {k \in 0 .. Len(data) : \E F : Eq(F, k)}
<1>1. Parsed(data) = Z[Len(data)]
  BY DEF Parsed
<1> HIDE DEF Follow
<1>2. 0 \in T
  <2> DEFINE F == [i \in 0 .. 0 |-> [ok |-> TRUE, pos |-> 0, next |-> 0, tiles |-> 0]]
  <2>1. Eq(F, 0)
    OBVIOUS
  <2> HIDE DEF Eq, F
  <2> QED BY <2>1
<1>3. ASSUME NEW k \in 0 .. Len(data) - 1, k \in T PROVE k + 1 \in T
  <2>1. PICK F : Eq(F, k)
    BY <1>3
  <2> DEFINE X == [i \in 0 .. k + 1 |-> IF i = k + 1 THEN Follow(k + 1, F[k]) ELSE F[i]]
  <2>2. \A i \in 0 .. k : i \in 0 .. k + 1 /\ i # k + 1
    OBVIOUS
  <2>3. ASSUME NEW i \in 0 .. k + 1
        PROVE  X[i] = IF i = 0 THEN [ok |-> TRUE, pos |-> 0, next |-> 0, tiles |-> 0] ELSE Follow(i, X[i - 1])
    <3>1. CASE i = 0
      BY <2>1, <2>2, <3>1
    <3>2. CASE i = k + 1
      <4>1. k \in 0 .. k + 1 /\ k # k + 1 /\ i # 0 /\ i - 1 = k
        BY <3>2
      <4>2. X[i] = Follow(k + 1, F[k]) /\ X[k] = F[k]
        BY <3>2, <4>1
      <4> HIDE DEF X
      <4> QED BY <3>2, <4>1, <4>2
    <3>3. CASE i \in 1 .. k
      <4>1. i \in 0 .. k /\ i # 0 /\ i - 1 \in 0 .. k /\ i # k + 1
        BY <3>3
      <4>2. X[i] = F[i] /\ X[i - 1] = F[i - 1]
        BY <4>1, <2>2
      <4>3. F[i] = Follow(i, F[i - 1])
        BY <2>1, <4>1
      <4> HIDE DEF X, Eq
      <4> QED BY <4>1, <4>2, <4>3
    <3>4. i = 0 \/ i = k + 1 \/ i \in 1 .. k
      OBVIOUS
    <3> QED BY <3>1, <3>2, <3>3, <3>4
  <2>4. X = [i \in 0 .. k + 1 |-> X[i]]
    OBVIOUS
  <2> HIDE DEF X
  <2>5. Eq(X, k + 1)
    BY <2>3, <2>4
  <2>6. k + 1 \in 0 .. Len(data)
    OBVIOUS
  <2> HIDE DEF Eq
  <2> QED BY <2>5, <2>6
<1>4. Len(data) \in T
  <2>1. Steps(T, Len(data))
    <3> HIDE DEF T
    <3> QED BY <1>3 DEF Steps
  <2> HIDE DEF T
  <2>2. Len(data) \in 0 .. Len(data)
    OBVIOUS
  <2> QED BY <1>2, <2>1, <2>2, UpTo
<1>5. Eq(Z, Len(data))
  <2>1. \E F : Eq(F, Len(data))
    BY <1>4
  <2> HIDE DEF Eq
  <2> QED BY <2>1, Zenon
<1> HIDE DEF Z
<1>6. Z[0] = [ok |-> TRUE, pos |-> 0, next |-> 0, tiles |-> 0] /\ \A i \in 1 .. Len(data) : Z[i] = Follow(i, Z[i - 1])
  <2>1. 0 \in 0 .. Len(data) /\ \A i \in 1 .. Len(data) : i \in 0 .. Len(data) /\ i # 0
    OBVIOUS
  <2> QED BY <1>5, <2>1
<1> QED BY <1>1, <1>6 DEF Follow

\* One frame of the analyzer.
Analyzed(before, frame) ==
  LET payload == Payload(frame)
      parsed == Parsed(payload.out)
  IN IF \/ before = Died \/ frame.raw > FrameMax \/ ~payload.ok \/ ~parsed.ok
        \/ parsed.pos # Len(payload.out)
     THEN Died ELSE Counted(before, frame, parsed.tiles)

\* The analyzer's loop over the frames.
LEMMA AnalyzeIs ==
  ASSUME Analyze, Len(stream) \in Nat
  PROVE  \E Z : /\ report' = Z[Len(stream)]
               /\ Z[0] = NoStats
               /\ \A i \in 1 .. Len(stream) : Z[i] = Analyzed(Z[i - 1], stream[i])
<1> DEFINE Follow(i, p) == Analyzed(p, stream[i])
           Eq(F, k) == F = [i \in 0 .. k |-> IF i = 0 THEN NoStats ELSE Follow(i, F[i - 1])]
           Z == CHOOSE F : Eq(F, Len(stream))
           T == {k \in 0 .. Len(stream) : \E F : Eq(F, k)}
<1>1. report' = Z[Len(stream)]
  BY DEF Analyze, Analyzed
<1> HIDE DEF Follow
<1>2. 0 \in T
  <2> DEFINE F == [i \in 0 .. 0 |-> NoStats]
  <2>1. Eq(F, 0)
    OBVIOUS
  <2> HIDE DEF Eq, F
  <2> QED BY <2>1
<1>3. ASSUME NEW k \in 0 .. Len(stream) - 1, k \in T PROVE k + 1 \in T
  <2>1. PICK F : Eq(F, k)
    BY <1>3
  <2> DEFINE X == [i \in 0 .. k + 1 |-> IF i = k + 1 THEN Follow(k + 1, F[k]) ELSE F[i]]
  <2>2. \A i \in 0 .. k : i \in 0 .. k + 1 /\ i # k + 1
    OBVIOUS
  <2>3. ASSUME NEW i \in 0 .. k + 1
        PROVE  X[i] = IF i = 0 THEN NoStats ELSE Follow(i, X[i - 1])
    <3>1. CASE i = 0
      BY <2>1, <2>2, <3>1
    <3>2. CASE i = k + 1
      <4>1. k \in 0 .. k + 1 /\ k # k + 1 /\ i # 0 /\ i - 1 = k
        BY <3>2
      <4>2. X[i] = Follow(k + 1, F[k]) /\ X[k] = F[k]
        BY <3>2, <4>1
      <4> HIDE DEF X
      <4> QED BY <3>2, <4>1, <4>2
    <3>3. CASE i \in 1 .. k
      <4>1. i \in 0 .. k /\ i # 0 /\ i - 1 \in 0 .. k /\ i # k + 1
        BY <3>3
      <4>2. X[i] = F[i] /\ X[i - 1] = F[i - 1]
        BY <4>1, <2>2
      <4>3. F[i] = Follow(i, F[i - 1])
        BY <2>1, <4>1
      <4> HIDE DEF X, Eq
      <4> QED BY <4>1, <4>2, <4>3
    <3>4. i = 0 \/ i = k + 1 \/ i \in 1 .. k
      OBVIOUS
    <3> QED BY <3>1, <3>2, <3>3, <3>4
  <2>4. X = [i \in 0 .. k + 1 |-> X[i]]
    OBVIOUS
  <2> HIDE DEF X
  <2>5. Eq(X, k + 1)
    BY <2>3, <2>4
  <2>6. k + 1 \in 0 .. Len(stream)
    OBVIOUS
  <2> HIDE DEF Eq
  <2> QED BY <2>5, <2>6
<1>4. Len(stream) \in T
  <2>1. Steps(T, Len(stream))
    <3> HIDE DEF T
    <3> QED BY <1>3 DEF Steps
  <2> HIDE DEF T
  <2>2. Len(stream) \in 0 .. Len(stream)
    OBVIOUS
  <2> QED BY <1>2, <2>1, <2>2, UpTo
<1>5. Eq(Z, Len(stream))
  <2>1. \E F : Eq(F, Len(stream))
    BY <1>4
  <2> HIDE DEF Eq
  <2> QED BY <2>1, Zenon
<1> HIDE DEF Z
<1>6. Z[0] = NoStats /\ \A i \in 1 .. Len(stream) : Z[i] = Follow(i, Z[i - 1])
  <2>1. 0 \in 0 .. Len(stream) /\ \A i \in 1 .. Len(stream) : i \in 0 .. Len(stream) /\ i # 0
    OBVIOUS
  <2> QED BY <1>5, <2>1
<1> QED BY <1>1, <1>6 DEF Follow

(***************************************************************************)
(* The compression.                                                        *)
(***************************************************************************)
\* data has bytes from pos on.
Holds(data, pos, bytes) ==
  pos + Len(bytes) <= Len(data) /\ \A i \in 1 .. Len(bytes) : data[pos + i] = bytes[i]

\* To have two runs of bytes one after the other is to have each of them.
LEMMA HoldsBoth ==
  ASSUME NEW data \in Seq(Nat), NEW pos \in Nat, NEW a \in Seq(Nat), NEW b \in Seq(Nat)
  PROVE  Holds(data, pos, a \o b) <=> Holds(data, pos, a) /\ Holds(data, pos + Len(a), b)
<1>1. /\ a \o b \in Seq(Nat) /\ Len(a \o b) = Len(a) + Len(b) /\ Len(a) \in Nat /\ Len(b) \in Nat
      /\ \A i \in 1 .. Len(a) : (a \o b)[i] = a[i]
      /\ \A i \in 1 .. Len(b) : (a \o b)[Len(a) + i] = b[i]
  OBVIOUS
<1>2. ASSUME Holds(data, pos, a), Holds(data, pos + Len(a), b) PROVE Holds(data, pos, a \o b)
  <2>1. ASSUME NEW i \in 1 .. Len(a) + Len(b) PROVE data[pos + i] = (a \o b)[i]
    <3>1. CASE i <= Len(a)
      <4>1. i \in 1 .. Len(a)
        BY <1>1, <3>1
      <4> QED BY <1>1, <1>2, <4>1 DEF Holds
    <3>2. CASE i > Len(a)
      <4>1. i - Len(a) \in 1 .. Len(b) /\ Len(a) + (i - Len(a)) = i
            /\ (pos + Len(a)) + (i - Len(a)) = pos + i
        BY <1>1, <3>2
      <4>2. data[(pos + Len(a)) + (i - Len(a))] = b[i - Len(a)]
        BY <1>2, <4>1 DEF Holds
      <4>3. (a \o b)[Len(a) + (i - Len(a))] = b[i - Len(a)]
        BY <1>1, <4>1
      <4> QED BY <4>1, <4>2, <4>3
    <3> QED BY <1>1, <3>1, <3>2
  <2>2. pos + (Len(a) + Len(b)) <= Len(data)
    BY <1>1, <1>2 DEF Holds
  <2> QED BY <1>1, <2>1, <2>2 DEF Holds
<1>3. ASSUME Holds(data, pos, a \o b) PROVE Holds(data, pos, a) /\ Holds(data, pos + Len(a), b)
  <2>1. pos + (Len(a) + Len(b)) <= Len(data)
        /\ \A i \in 1 .. Len(a) + Len(b) : data[pos + i] = (a \o b)[i]
    BY <1>1, <1>3 DEF Holds
  <2>2. Holds(data, pos, a)
    <3>1. \A i \in 1 .. Len(a) : i \in 1 .. Len(a) + Len(b)
      BY <1>1
    <3>2. pos + Len(a) <= Len(data)
      BY <1>1, <2>1
    <3> QED BY <1>1, <2>1, <3>1, <3>2 DEF Holds
  <2>3. ASSUME NEW i \in 1 .. Len(b) PROVE data[(pos + Len(a)) + i] = b[i]
    <3>1. Len(a) + i \in 1 .. Len(a) + Len(b) /\ pos + (Len(a) + i) = (pos + Len(a)) + i
      BY <1>1
    <3>2. data[pos + (Len(a) + i)] = (a \o b)[Len(a) + i]
      BY <2>1, <3>1
    <3> QED BY <1>1, <3>1, <3>2
  <2>4. (pos + Len(a)) + Len(b) <= Len(data)
    BY <1>1, <2>1
  <2> QED BY <2>2, <2>3, <2>4 DEF Holds
<1> QED BY <1>2, <1>3

\* Two bytes, or three.
LEMMA HoldsFew ==
  ASSUME NEW data \in Seq(Nat), NEW pos \in Nat, NEW a \in Nat, NEW b \in Nat, NEW c \in Nat
  PROVE  /\ Holds(data, pos, <<a>>) => pos + 1 <= Len(data) /\ ByteAt(data, pos) = a
         /\ Holds(data, pos, <<a, b>>) =>
              pos + 2 <= Len(data) /\ ByteAt(data, pos) = a /\ ByteAt(data, pos + 1) = b
         /\ Holds(data, pos, <<a, b, c>>) =>
              /\ pos + 3 <= Len(data)
              /\ ByteAt(data, pos) = a /\ ByteAt(data, pos + 1) = b /\ ByteAt(data, pos + 2) = c
<1>1. Len(<<a>>) = 1 /\ Len(<<a, b>>) = 2 /\ Len(<<a, b, c>>) = 3
      /\ <<a>>[1] = a /\ <<a, b>>[1] = a /\ <<a, b>>[2] = b
      /\ <<a, b, c>>[1] = a /\ <<a, b, c>>[2] = b /\ <<a, b, c>>[3] = c
  OBVIOUS
<1>2. (pos + 1) + 1 = pos + 2 /\ (pos + 2) + 1 = pos + 3 /\ 1 \in 1 .. 1 /\ 1 \in 1 .. 2 /\ 2 \in 1 .. 2
      /\ 1 \in 1 .. 3 /\ 2 \in 1 .. 3 /\ 3 \in 1 .. 3
  OBVIOUS
<1>3. ASSUME Holds(data, pos, <<a>>) PROVE pos + 1 <= Len(data) /\ ByteAt(data, pos) = a
  BY <1>1, <1>2, <1>3 DEF Holds, ByteAt
<1>4. ASSUME Holds(data, pos, <<a, b>>)
      PROVE  pos + 2 <= Len(data) /\ ByteAt(data, pos) = a /\ ByteAt(data, pos + 1) = b
  <2>1. pos + 2 <= Len(data) /\ \A i \in 1 .. 2 : data[pos + i] = <<a, b>>[i]
    BY <1>1, <1>4 DEF Holds
  <2>2. data[pos + 1] = a /\ data[pos + 2] = b
    BY <1>1, <1>2, <2>1
  <2> QED BY <1>2, <2>1, <2>2 DEF ByteAt
<1>5. ASSUME Holds(data, pos, <<a, b, c>>)
      PROVE  /\ pos + 3 <= Len(data)
             /\ ByteAt(data, pos) = a /\ ByteAt(data, pos + 1) = b /\ ByteAt(data, pos + 2) = c
  <2>1. pos + 3 <= Len(data) /\ \A i \in 1 .. 3 : data[pos + i] = <<a, b, c>>[i]
    BY <1>1, <1>5 DEF Holds
  <2>2. data[pos + 1] = a /\ data[pos + 2] = b /\ data[pos + 3] = c
    BY <1>1, <1>2, <2>1
  <2> QED BY <1>2, <2>1, <2>2 DEF ByteAt
<1> QED BY <1>3, <1>4, <1>5

\* The limits of the compression are numbers.
LEMMA LzssNumbers ==
  ASSUME LzssAssumption
  PROVE  /\ Group \in Nat /\ OffLow \in Nat /\ OffHigh \in Nat /\ Nibble \in Nat /\ Extra \in Nat
         /\ Group > 0 /\ OffLow > 0 /\ OffHigh > 0 /\ Nibble > 0 /\ Extra > 0
         /\ Window \in Nat /\ MaxMatch \in Nat /\ MaxMatch = 3 + Nibble + Extra
<1>1. /\ Group \in Nat \ {0} /\ OffLow \in Nat \ {0} /\ OffHigh \in Nat \ {0} /\ Nibble \in Nat \ {0}
      /\ Extra \in Nat \ {0}
  BY DEF LzssAssumption
<1>2. Window \in Nat /\ MaxMatch \in Nat /\ MaxMatch = 3 + Nibble + Extra
  BY <1>1 DEF Window, MaxMatch, MinMatch
<1> QED BY <1>1, <1>2

\* A match found is a stretch of earlier bytes, in reach of the offset and of
\* the length.
LEMMA BestIs ==
  ASSUME LzssAssumption, NEW data \in Seq(Nat), NEW pos \in 0 .. Len(data) - 1
  PROVE  LET best == Best(data, pos)
         IN /\ best.length \in Nat
            /\ best.length >= MinMatch =>
                 /\ best.from \in 0 .. pos - 1 /\ pos - best.from <= Window
                 /\ best.length <= MaxMatch /\ pos + best.length <= Len(data)
                 /\ \A i \in 0 .. best.length - 1 : ByteAt(data, best.from + i) = ByteAt(data, pos + i)
<1> DEFINE C == Candidates(data, pos)
           M(q) == MatchLength(data, pos, q)
           room == Min({MaxMatch, Len(data) - pos})
           G(q) == {0} \cup {n \in 1 .. room : \A i \in 0 .. n - 1 : ByteAt(data, q + i) = ByteAt(data, pos + i)}
           L == Max({M(q) : q \in C})
           F == {q \in C : M(q) = L}
<1>1. MaxMatch \in Nat /\ Len(data) - pos \in Nat /\ pos \in Nat
  BY LzssNumbers
<1>2. room \in Nat /\ room <= MaxMatch /\ room <= Len(data) - pos
  BY <1>1, MinOfTwo
<1> HIDE DEF room
<1>3. ASSUME NEW q PROVE M(q) \in G(q) /\ G(q) \in SUBSET (0 .. room)
  <2>1. G(q) \in SUBSET (0 .. room) /\ G(q) # {}
    BY <1>2
  <2>2. M(q) = Max(G(q))
    BY DEF MatchLength, room
  <2> HIDE DEF G
  <2> QED BY <1>2, <2>1, <2>2, MaxIs
<1>4. C \in SUBSET (0 .. pos - 1) /\ \A q \in C : pos - q <= Window
  BY DEF Candidates, Chained
<1>5. CASE pos + MinMatch > Len(data) \/ C = {}
  BY <1>5 DEF Best, MinMatch
<1>6. CASE ~(pos + MinMatch > Len(data) \/ C = {})
  <2>1. Best(data, pos) = [length |-> L, from |-> Max(F)]
    BY <1>6 DEF Best
  <2>2. L \in {M(q) : q \in C}
    <3>1. {M(q) : q \in C} \in SUBSET (0 .. room) /\ {M(q) : q \in C} # {}
      <4> HIDE DEF M, C
      <4>1. \A q \in C : M(q) \in 0 .. room
        BY <1>3
      <4> QED BY <1>6, <4>1
    <3> HIDE DEF M, C
    <3> QED BY <1>2, <3>1, MaxIs
  <2>3. Max(F) \in F
    <3>1. F \in SUBSET (0 .. pos) /\ F # {}
      <4> HIDE DEF M, C, L
      <4>1. C \in SUBSET (0 .. pos)
        BY <1>1, <1>4
      <4> QED BY <2>2, <4>1
    <3> HIDE DEF F
    <3> QED BY <1>1, <3>1, MaxIs
  <2> DEFINE from == Max(F)
  <2>4. from \in C /\ M(from) = L
    BY <2>3
  <2> HIDE DEF M, L, C, G, from
  <2>5. L \in G(from) /\ L \in 0 .. room
    BY <1>3, <2>4
  <2>6. from \in 0 .. pos - 1 /\ pos - from <= Window
    BY <1>4, <2>4
  <2>7. L <= MaxMatch /\ pos + L <= Len(data) /\ L \in Nat
    BY <1>1, <1>2, <2>5
  <2>8. L >= MinMatch => \A i \in 0 .. L - 1 : ByteAt(data, from + i) = ByteAt(data, pos + i)
    BY <2>5 DEF G, MinMatch
  <2>9. Best(data, pos).length = L /\ Best(data, pos).from = from
    BY <2>1 DEF from
  <2> QED BY <2>6, <2>7, <2>8, <2>9
<1> QED BY <1>5, <1>6

\* The first n bytes of data.
Start(data, n) == [i \in 1 .. n |-> data[i]]

\* The first n bytes of data are as many, and one more is one byte more.
LEMMA StartIs ==
  ASSUME NEW data \in Seq(Nat), NEW n \in 0 .. Len(data)
  PROVE  /\ Start(data, n) \in Seq(Nat) /\ Len(Start(data, n)) = n
         /\ \A i \in 1 .. n : Start(data, n)[i] = data[i]
         /\ n < Len(data) => Append(Start(data, n), ByteAt(data, n)) = Start(data, n + 1)
         /\ n = Len(data) => Start(data, n) = data
<1>1. Start(data, n) \in Seq(Nat) /\ Len(Start(data, n)) = n
  <2>1. n \in Nat /\ \A i \in 1 .. n : data[i] \in Nat
    OBVIOUS
  <2> QED BY <2>1 DEF Start
<1>2. \A i \in 1 .. n : Start(data, n)[i] = data[i]
  BY DEF Start
<1>3. n < Len(data) => Append(Start(data, n), ByteAt(data, n)) = Start(data, n + 1)
  <2> SUFFICES ASSUME n < Len(data) PROVE Append(Start(data, n), ByteAt(data, n)) = Start(data, n + 1)
    OBVIOUS
  <2> DEFINE A == Append(Start(data, n), data[n + 1])
             B == Start(data, n + 1)
  <2>1. data[n + 1] \in Nat /\ n + 1 \in 0 .. Len(data) /\ \A i \in 1 .. n + 1 : data[i] \in Nat
    OBVIOUS
  <2>2. A \in Seq(Nat) /\ Len(A) = n + 1 /\ A[n + 1] = data[n + 1] /\ \A i \in 1 .. n : A[i] = Start(data, n)[i]
    BY <1>1, <2>1
  <2>3. B \in Seq(Nat) /\ Len(B) = n + 1 /\ \A i \in 1 .. n + 1 : B[i] = data[i]
    BY <2>1 DEF Start
  <2>4. \A i \in 1 .. n + 1 : i \in 1 .. n \/ i = n + 1
    OBVIOUS
  <2> HIDE DEF A, B
  <2>5. \A i \in 1 .. n + 1 : A[i] = B[i]
    BY <1>2, <2>2, <2>3, <2>4
  <2>6. A = B
    BY <2>2, <2>3, <2>5
  <2> QED BY <2>6 DEF A, B, ByteAt
<1>4. n = Len(data) => Start(data, n) = data
  BY DEF Start
<1> QED BY <1>1, <1>2, <1>3, <1>4

\* A copy of bytes of which every one is already there, one by one, even where
\* the copy overlaps what it copies.
LEMMA CopiedIs ==
  ASSUME NEW data \in Seq(Nat), NEW n \in 0 .. Len(data), NEW offset \in 1 .. n, NEW length \in Nat,
         n + length <= Len(data),
         \A i \in 0 .. length - 1 : ByteAt(data, (n - offset) + i) = ByteAt(data, n + i)
  PROVE  Repeated(Start(data, n), offset, length, Len(data)) = Start(data, n + length)
<1> DEFINE out == Start(data, n)
           m == n + length
           Eq(B) == B = [i \in 1 .. Len(out) + length |-> IF i <= Len(out) THEN out[i] ELSE B[i - offset]]
           Byte == CHOOSE B : Eq(B)
           X == Start(data, m)
<1>1. Len(out) = n /\ (\A i \in 1 .. n : out[i] = data[i]) /\ m \in 0 .. Len(data) /\ n \in Nat /\ offset \in Nat
  BY StartIs
<1>2. Repeated(out, offset, length, Len(data)) = [i \in 1 .. Min({Len(out) + length, Len(data)}) |-> Byte[i]]
  BY DEF Repeated
<1>3. Min({Len(out) + length, Len(data)}) = m
  BY <1>1, MinOfTwo
<1>4. ASSUME NEW i \in n + 1 .. m PROVE data[i] = data[i - offset] /\ i - offset \in 1 .. i - 1
  <2>1. i - (n + 1) \in 0 .. length - 1 /\ ((n - offset) + (i - (n + 1))) + 1 = i - offset
        /\ (n + (i - (n + 1))) + 1 = i /\ i - offset \in 1 .. i - 1
    BY <1>1
  <2>2. ByteAt(data, (n - offset) + (i - (n + 1))) = ByteAt(data, n + (i - (n + 1)))
    BY <2>1
  <2> QED BY <2>1, <2>2 DEF ByteAt
<1>5. Eq(X)
  <2>1. X = [i \in 1 .. m |-> data[i]]
    BY DEF Start
  <2> HIDE DEF out, X
  <2>2. \A i \in 1 .. m : X[i] = data[i]
    BY <2>1
  <2>3. ASSUME NEW i \in 1 .. m PROVE data[i] = IF i <= n THEN out[i] ELSE X[i - offset]
    <3>1. CASE i <= n
      BY <1>1, <3>1
    <3>2. CASE i > n
      <4>1. i \in n + 1 .. m
        BY <1>1, <3>2
      <4>2. i - offset \in 1 .. m
        BY <1>1, <1>4, <4>1
      <4> QED BY <1>1, <1>4, <2>2, <3>2, <4>1, <4>2
    <3> QED BY <1>1, <3>1, <3>2
  <2>4. X = [i \in 1 .. m |-> IF i <= n THEN out[i] ELSE X[i - offset]]
    BY <2>1, <2>3
  <2> QED BY <1>1, <2>4
<1> HIDE DEF out, X
<1>6. Eq(Byte)
  <2> HIDE DEF Eq
  <2> QED BY <1>5, Zenon
<1> HIDE DEF Byte
<1> DEFINE T == {k \in 0 .. m : \A i \in 1 .. k : Byte[i] = data[i]}
<1>7. 0 \in T
  BY <1>1
<1>8. Steps(T, m)
  <2> SUFFICES ASSUME NEW k \in 0 .. m - 1, k \in T PROVE k + 1 \in T
    BY DEF Steps
  <2>a. \A i \in 1 .. k : Byte[i] = data[i]
    OBVIOUS
  <2> HIDE DEF T
  <2>1. k + 1 \in 1 .. m /\ k \in Nat /\ \A i \in 1 .. k + 1 : i \in 1 .. k \/ i = k + 1
    BY <1>1
  <2>2. Byte[k + 1] = IF k + 1 <= n THEN out[k + 1] ELSE Byte[(k + 1) - offset]
    BY <1>1, <1>6, <2>1
  <2>3. Byte[k + 1] = data[k + 1]
    <3>1. CASE k + 1 <= n
      BY <1>1, <2>1, <2>2, <3>1
    <3>2. CASE k + 1 > n
      <4>1. k + 1 \in n + 1 .. m
        BY <1>1, <2>1, <3>2
      <4>2. data[k + 1] = data[(k + 1) - offset] /\ (k + 1) - offset \in 1 .. k
        BY <1>4, <2>1, <4>1
      <4>3. Byte[(k + 1) - offset] = data[(k + 1) - offset]
        BY <2>a, <4>2
      <4> QED BY <1>1, <2>1, <2>2, <3>2, <4>2, <4>3
    <3> QED BY <1>1, <2>1, <3>1, <3>2
  <2>4. k + 1 \in 0 .. m
    BY <2>1
  <2> QED BY <2>a, <2>1, <2>3, <2>4 DEF T
<1>9. m \in T
  <2>1. m \in Nat /\ m \in 0 .. m
    BY <1>1
  <2> HIDE DEF T
  <2> QED BY <1>7, <1>8, <2>1, UpTo
<1>10. \A i \in 1 .. m : Byte[i] = data[i]
  BY <1>9
<1> QED BY <1>2, <1>3, <1>10 DEF Start, out

\* The two bytes of a copy, or three, give back its offset and its length.
LEMMA CopyIs ==
  ASSUME LzssAssumption, NEW input \in Seq(Nat), NEW p \in Nat,
         NEW length \in MinMatch .. MaxMatch, NEW offset \in 1 .. Window
  PROVE  /\ CopyBytes(length, offset) \in Seq(Nat)
         /\ LET n == Len(CopyBytes(length, offset))
            IN /\ n \in Nat /\ 2 <= n /\ n <= 3
               /\ length >= MinMatch + Nibble => n >= 3
               /\ length < MinMatch + Nibble => n <= 2
         /\ Holds(input, p, CopyBytes(length, offset)) =>
              LET b0 == ByteAt(input, p)
                  b1 == ByteAt(input, p + 1)
              IN /\ p + 2 <= Len(input)
                 /\ (b1 % OffHigh) * OffLow + b0 + 1 = offset
                 /\ (b1 \div OffHigh = Nibble) <=> (length >= MinMatch + Nibble)
                 /\ length >= MinMatch + Nibble =>
                      /\ p + 3 <= Len(input)
                      /\ MinMatch + Nibble + ByteAt(input, p + 2) = length
                 /\ length < MinMatch + Nibble => b1 \div OffHigh + MinMatch = length
<1> DEFINE o == offset - 1
           low == o % OffLow
           high == o \div OffLow
           long == length >= MinMatch + Nibble
           x == IF long THEN Nibble ELSE length - 3
           y == x * OffHigh + high
           c == length - (3 + Nibble)
<1>1. /\ OffLow \in Nat \ {0} /\ OffHigh \in Nat \ {0} /\ Nibble \in Nat \ {0} /\ MinMatch = 3
      /\ length \in Nat /\ length >= 3 /\ o \in Nat /\ offset = o + 1 /\ o < OffLow * OffHigh
      /\ OffLow * OffHigh \in Nat
  BY LzssNumbers DEF MinMatch, Window
<1>6. CopyBytes(length, offset) = IF long THEN <<low, y, c>> ELSE <<low, y>>
  BY <1>1 DEF CopyBytes
<1> HIDE DEF o
<1>2. low \in 0 .. OffLow - 1 /\ high \in Nat /\ o = OffLow * high + low
  <2>1. o \in Int /\ OffLow \in Nat \ {0} /\ o >= 0
    BY <1>1
  <2>2. low \in 0 .. OffLow - 1 /\ high \in Int /\ o = OffLow * high + low /\ (o >= 0 => high \in Nat)
    BY <2>1, RemainderOf
  <2> QED BY <2>1, <2>2
<1> HIDE DEF low, high
<1>3. high < OffHigh
  <2>1. high * OffLow < OffHigh * OffLow
    BY <1>1, <1>2
  <2> QED BY <1>1, <1>2, <2>1, ProductBelow
<1>4. x \in Nat /\ (x = Nibble <=> long)
  BY <1>1
<1>7. (long => c \in Nat /\ MinMatch + Nibble + c = length) /\ low \in Nat
      /\ (~long => x + MinMatch = length)
  BY <1>1, <1>2
<1> HIDE DEF x, c, y
<1>8. y \in Nat /\ y % OffHigh = high /\ y \div OffHigh = x
  <2>1. y = OffHigh * x + high /\ y \in Nat /\ high \in 0 .. OffHigh - 1
    BY <1>1, <1>2, <1>3, <1>4 DEF y
  <2> QED BY <1>1, <1>4, <2>1, QuotientIs
<1>10. high * OffLow + low + 1 = offset
  <2>1. OffLow * high = high * OffLow /\ high * OffLow \in Nat
    BY <1>1, <1>2
  <2> QED BY <1>1, <1>2, <2>1
<1>11. CASE long
  <2>1. c \in Nat /\ CopyBytes(length, offset) = <<low, y, c>>
    BY <1>6, <1>7, <1>11
  <2>2. Holds(input, p, <<low, y, c>>) =>
          p + 3 <= Len(input) /\ ByteAt(input, p) = low /\ ByteAt(input, p + 1) = y /\ ByteAt(input, p + 2) = c
    BY <1>7, <1>8, <2>1, HoldsFew
  <2>3. <<low, y, c>> \in Seq(Nat) /\ Len(<<low, y, c>>) >= 3 /\ Len(<<low, y, c>>) <= 3
    BY <1>7, <1>8, <2>1
  <2>4. p + 3 <= Len(input) => p + 2 <= Len(input)
    OBVIOUS
  <2>5. length \in Nat /\ ~(length < MinMatch + Nibble)
    BY <1>1, <1>11
  <2> QED BY <1>4, <1>7, <1>8, <1>10, <1>11, <2>1, <2>2, <2>3, <2>4, <2>5
<1>12. CASE ~long
  <2>1. CopyBytes(length, offset) = <<low, y>>
    BY <1>6, <1>12
  <2>2. Holds(input, p, <<low, y>>) => p + 2 <= Len(input) /\ ByteAt(input, p) = low /\ ByteAt(input, p + 1) = y
    BY <1>7, <1>8, HoldsFew
  <2>3. <<low, y>> \in Seq(Nat) /\ Len(<<low, y>>) >= 2 /\ Len(<<low, y>>) <= 2
    BY <1>7, <1>8
  <2> QED BY <1>4, <1>7, <1>8, <1>10, <1>12, <2>1, <2>2, <2>3
<1> QED BY <1>11, <1>12

\* An item has a flag and at least a byte, and goes on.
LEMMA CodedIs ==
  ASSUME LzssAssumption, NEW data \in Seq(Nat), NEW pos \in 0 .. Len(data) - 1
  PROVE  LET item == Coded(data, pos)
         IN /\ (item.flag = 0 \/ item.flag = 1) /\ item.bytes \in Seq(Nat) /\ Len(item.bytes) \in Nat
                 /\ Len(item.bytes) > 0
            /\ item.length \in Nat /\ item.length > 0 /\ pos + item.length <= Len(data)
<1> DEFINE best == Best(data, pos)
<1>1. /\ best.length \in Nat
      /\ best.length >= MinMatch =>
           /\ best.from \in 0 .. pos - 1 /\ pos - best.from <= Window
           /\ best.length <= MaxMatch /\ pos + best.length <= Len(data)
  BY BestIs
<1> HIDE DEF best
<1>2. CASE best.length >= MinMatch
  <2>1. Coded(data, pos) =
          [flag |-> 1, bytes |-> CopyBytes(best.length, pos - best.from), length |-> best.length]
    BY <1>2 DEF Coded, best
  <2>2. /\ best.length \in Nat /\ best.length >= 3
        /\ best.from \in 0 .. pos - 1 /\ pos - best.from <= Window
        /\ best.length <= MaxMatch /\ pos + best.length <= Len(data)
    BY <1>1, <1>2 DEF MinMatch
  <2>3. Window \in Nat /\ MaxMatch \in Nat
    BY LzssNumbers
  <2>4. best.length \in MinMatch .. MaxMatch
    BY <2>2, <2>3 DEF MinMatch
  <2>5. pos - best.from \in 1 .. Window
    <3>1. best.from \in 0 .. pos - 1 /\ pos - best.from <= Window /\ Window \in Nat /\ pos \in Int
      BY <2>2, <2>3
    <3> QED BY ONLY <3>1
  <2> DEFINE bytes == CopyBytes(best.length, pos - best.from)
  <2>6. bytes \in Seq(Nat) /\ Len(bytes) >= 2 /\ Len(bytes) <= 3
    <3>1. <<>> \in Seq(Nat) /\ 0 \in Nat
      OBVIOUS
    <3> QED BY <2>4, <2>5, <3>1, CopyIs
  <2> HIDE DEF bytes
  <2>7. LET item == Coded(data, pos) IN item.flag = 1 /\ item.bytes = bytes /\ item.length = best.length
    BY <2>1 DEF bytes
  <2>8. Len(bytes) \in Nat /\ Len(bytes) > 0 /\ best.length \in Nat /\ best.length > 0
    <3>1. Len(bytes) \in Nat /\ Len(bytes) > 0
      BY ONLY <2>6
    <3>2. best.length \in Nat /\ best.length > 0
      BY ONLY <2>2
    <3> QED BY <3>1, <3>2
  <2> QED BY <2>2, <2>6, <2>7, <2>8
<1>3. CASE ~(best.length >= MinMatch)
  <2>1. Coded(data, pos) = [flag |-> 0, bytes |-> <<ByteAt(data, pos)>>, length |-> 1]
    BY <1>3 DEF Coded, best
  <2>2. ByteAt(data, pos) \in Nat
    BY DEF ByteAt
  <2>3. <<ByteAt(data, pos)>> \in Seq(Nat) /\ Len(<<ByteAt(data, pos)>>) = 1
    BY <2>2
  <2> QED BY <2>1, <2>3
<1> QED BY <1>2, <1>3

\* One item read is that item.
LEMMA ItemIs ==
  ASSUME LzssAssumption, NEW data \in Seq(Nat), NEW pos \in 0 .. Len(data) - 1, NEW input \in Seq(Nat),
         NEW s, s.pos \in Nat, s.flags \in Nat, s.out = Start(data, pos), NEW q \in Nat,
         s.flags = Coded(data, pos).flag + 2 * q, Holds(input, s.pos, Coded(data, pos).bytes)
  PROVE  Item(s, input, Len(data)) =
           Taken(s.pos + Len(Coded(data, pos).bytes), Start(data, pos + Coded(data, pos).length),
                 q, s.left - 1)
<1> DEFINE best == Best(data, pos)
<1>1. /\ best.length \in Nat
      /\ best.length >= MinMatch =>
           /\ best.from \in 0 .. pos - 1 /\ pos - best.from <= Window
           /\ best.length <= MaxMatch /\ pos + best.length <= Len(data)
           /\ \A i \in 0 .. best.length - 1 : ByteAt(data, best.from + i) = ByteAt(data, pos + i)
  BY BestIs
<1> HIDE DEF best
<1>2. s.pos \in Nat /\ s.flags \in Nat /\ pos \in Nat /\ pos \in 0 .. Len(data) /\ Len(data) \in Nat
  OBVIOUS
<1>3. CASE best.length >= MinMatch
  <2> DEFINE length == best.length
             offset == pos - best.from
             bytes == CopyBytes(length, offset)
             b0 == ByteAt(input, s.pos)
             b1 == ByteAt(input, s.pos + 1)
  <2>1. Coded(data, pos) = [flag |-> 1, bytes |-> bytes, length |-> length]
    BY <1>3 DEF Coded, best
  <2>a. /\ length \in Nat /\ length >= 3 /\ best.from \in 0 .. pos - 1 /\ offset <= Window
        /\ length <= MaxMatch /\ pos + length <= Len(data)
        /\ \A i \in 0 .. length - 1 : ByteAt(data, best.from + i) = ByteAt(data, pos + i)
    BY <1>1, <1>3 DEF MinMatch
  <2>b. Window \in Nat /\ MaxMatch \in Nat /\ Nibble \in Nat
    BY LzssNumbers
  <2>2. length \in MinMatch .. MaxMatch /\ offset \in 1 .. Window /\ offset \in 1 .. pos
    <3>1. length \in MinMatch .. MaxMatch
      BY <2>a, <2>b DEF MinMatch
    <3>2. offset \in Nat /\ offset >= 1 /\ offset <= pos
      <4>1. best.from \in 0 .. pos - 1 /\ pos \in Int
        BY <2>a
      <4> QED BY ONLY <4>1 DEF offset
    <3> HIDE DEF offset, length
    <3>3. offset \in 1 .. Window
      BY <2>a, <2>b, <3>2
    <3>4. offset \in 1 .. pos
      BY <3>2, <1>2
    <3> QED BY <3>1, <3>3, <3>4
  <2>3. s.flags % 2 = 1 /\ s.flags \div 2 = q
    BY <1>2, <2>1
  <2>4. /\ Len(bytes) \in Nat /\ Len(bytes) >= 2 /\ Len(bytes) <= 3
        /\ length >= MinMatch + Nibble => Len(bytes) >= 3
        /\ length < MinMatch + Nibble => Len(bytes) <= 2
        /\ s.pos + 2 <= Len(input)
        /\ (b1 % OffHigh) * OffLow + b0 + 1 = offset
        /\ (b1 \div OffHigh = Nibble) <=> (length >= MinMatch + Nibble)
        /\ length >= MinMatch + Nibble =>
             /\ s.pos + 3 <= Len(input)
             /\ MinMatch + Nibble + ByteAt(input, s.pos + 2) = length
        /\ length < MinMatch + Nibble => b1 \div OffHigh + MinMatch = length
    <3>1. Holds(input, s.pos, bytes)
      BY <2>1
    <3> HIDE DEF length, offset
    <3>2. Holds(input, s.pos, CopyBytes(length, offset))
      BY <3>1
    <3>3. /\ LET n == Len(CopyBytes(length, offset))
             IN /\ n \in Nat /\ 2 <= n /\ n <= 3
                /\ length >= MinMatch + Nibble => n >= 3
                /\ length < MinMatch + Nibble => n <= 2
          /\ s.pos + 2 <= Len(input)
          /\ (ByteAt(input, s.pos + 1) % OffHigh) * OffLow + ByteAt(input, s.pos) + 1 = offset
          /\ (ByteAt(input, s.pos + 1) \div OffHigh = Nibble) <=> (length >= MinMatch + Nibble)
          /\ length >= MinMatch + Nibble =>
               /\ s.pos + 3 <= Len(input)
               /\ MinMatch + Nibble + ByteAt(input, s.pos + 2) = length
          /\ length < MinMatch + Nibble => ByteAt(input, s.pos + 1) \div OffHigh + MinMatch = length
      BY ONLY LzssAssumption, input \in Seq(Nat), <1>2, <2>2, <3>2, CopyIs
    <3> QED BY <3>3
  <2>5. Repeated(s.out, offset, length, Len(data)) = Start(data, pos + length)
    <3>1. best.from = pos - offset
      BY <1>2, <2>a
    <3> HIDE DEF length, offset
    <3>2. length \in Nat /\ pos + length <= Len(data)
          /\ \A i \in 0 .. length - 1 : ByteAt(data, (pos - offset) + i) = ByteAt(data, pos + i)
      BY <2>a, <3>1
    <3> QED BY <1>2, <2>2, <3>2, CopiedIs
  <2>6. Len(s.out) = pos
    BY <1>2, StartIs
  <2>c. Len(input) \in Nat
    OBVIOUS
  <2> HIDE DEF length, offset, bytes, b0, b1
  <2>7. offset <= pos /\ offset \in Nat
    BY <2>2, <1>2
  <2> DEFINE long == b1 \div OffHigh = Nibble
             n == Len(bytes)
  <2> HIDE DEF n
  <2>8. Item(s, input, Len(data)) =
          IF s.pos + 2 > Len(input) \/ (long /\ s.pos + 2 >= Len(input)) THEN Broken(s)
          ELSE LET l == IF long THEN MinMatch + Nibble + ByteAt(input, s.pos + 2) ELSE b1 \div OffHigh + MinMatch
               IN IF (b1 % OffHigh) * OffLow + b0 + 1 > Len(s.out) THEN Broken(s)
                  ELSE Taken(s.pos + (IF long THEN 3 ELSE 2),
                             Repeated(s.out, (b1 % OffHigh) * OffLow + b0 + 1, l, Len(data)),
                             s.flags \div 2, s.left - 1)
    BY <2>3 DEF Item, b0, b1
  <2>9. ~(s.pos + 2 > Len(input) \/ (long /\ s.pos + 2 >= Len(input))) /\ ~(offset > Len(s.out))
    <3>1. s.pos + 2 <= Len(input) /\ ~(s.pos + 2 > Len(input))
      BY <1>2, <2>4, <2>c
    <3>2. long => length >= MinMatch + Nibble
      BY <2>4
    <3> HIDE DEF long
    <3>3. long => ~(s.pos + 2 >= Len(input))
      BY <1>2, <2>4, <2>c, <3>2
    <3>4. ~(offset > Len(s.out))
      BY <1>2, <2>6, <2>7
    <3> QED BY <3>1, <3>3, <3>4
  <2>10. (IF long THEN MinMatch + Nibble + ByteAt(input, s.pos + 2) ELSE b1 \div OffHigh + MinMatch) = length
         /\ (IF long THEN 3 ELSE 2) = n
    <3>0. n \in Nat /\ n >= 2 /\ n <= 3 /\ (length >= MinMatch + Nibble => n >= 3)
          /\ (length < MinMatch + Nibble => n <= 2)
      BY <2>4 DEF n
    <3>1. long <=> length >= MinMatch + Nibble
      BY <2>4
    <3> HIDE DEF long
    <3>2. ~long => length < MinMatch + Nibble
      BY <3>1, <2>a, <2>b DEF MinMatch
    <3> HIDE DEF MinMatch
    <3>3. CASE long
      BY <2>4, <3>0, <3>1, <3>3
    <3>4. CASE ~long
      BY <2>4, <3>0, <3>1, <3>2, <3>4
    <3> QED BY <3>3, <3>4
  <2>11. (b1 % OffHigh) * OffLow + b0 + 1 = offset
    BY <2>4
  <2>12. Len(Coded(data, pos).bytes) = n /\ Coded(data, pos).length = length
    BY <2>1 DEF n
  <2> HIDE DEF long
  <2>13. Item(s, input, Len(data)) =
          Taken(s.pos + n, Repeated(s.out, offset, length, Len(data)), s.flags \div 2, s.left - 1)
    BY <2>8, <2>9, <2>10, <2>11, Zenon
  <2> QED BY <2>3, <2>5, <2>12, <2>13
<1>4. CASE ~(best.length >= MinMatch)
  <2>1. Coded(data, pos) = [flag |-> 0, bytes |-> <<ByteAt(data, pos)>>, length |-> 1]
    BY <1>4 DEF Coded, best
  <2>2. ByteAt(data, pos) \in Nat
    BY DEF ByteAt
  <2>3. s.pos + 1 <= Len(input) /\ ByteAt(input, s.pos) = ByteAt(data, pos)
    <3>1. Holds(input, s.pos, <<ByteAt(data, pos)>>)
      BY <2>1
    <3> QED BY <1>2, <2>2, <3>1, HoldsFew
  <2>4. s.flags % 2 = 0 /\ s.flags \div 2 = q /\ Len(<<ByteAt(data, pos)>>) = 1
    BY <1>2, <2>1, <2>2
  <2>5. Append(s.out, ByteAt(data, pos)) = Start(data, pos + 1)
    <3>1. pos < Len(data)
      BY <1>2
    <3>2. Append(Start(data, pos), ByteAt(data, pos)) = Start(data, pos + 1)
      BY <1>2, <3>1, StartIs
    <3> QED BY <3>2
  <2>6. ~(s.pos >= Len(input))
    BY <1>2, <2>3
  <2>7. Item(s, input, Len(data)) =
          Taken(s.pos + 1, Append(s.out, ByteAt(input, s.pos)), s.flags \div 2, s.left - 1)
    BY <2>4, <2>6 DEF Item
  <2>8. Len(Coded(data, pos).bytes) = 1 /\ Coded(data, pos).length = 1
    BY <2>1, <2>4
  <2> QED BY <2>3, <2>4, <2>5, <2>7, <2>8
<1> QED BY <1>3, <1>4

\* What the encoder is, after some items.
IsEncoder(e, data) ==
  /\ e.pos \in Nat /\ e.pos <= Len(data) /\ e.out \in Seq(Nat) /\ e.flags \in Nat
  /\ e.weight \in Nat /\ e.weight > 0 /\ e.held \in Seq(Nat) /\ e.count \in Nat /\ e.count < Group
  /\ e.count = 0 => e.held = <<>> /\ e.flags = 0 /\ e.weight = 1
  /\ e.pos = Len(data) => e.count = 0

\* lzss_compress with one item more: what it has written, and the group it
\* holds back.
LEMMA ExtendedIs ==
  ASSUME LzssAssumption, NEW data \in Seq(Nat), NEW e, IsEncoder(e, data), e.pos < Len(data)
  PROVE  LET item == Coded(data, e.pos)
             held == e.held \o item.bytes
             flags == e.flags + item.flag * e.weight
             full == e.count + 1 = Group \/ e.pos + item.length = Len(data)
         IN /\ IsEncoder(Extended(e, data), data)
            /\ Extended(e, data).pos = e.pos + item.length
            /\ held \in Seq(Nat) /\ Len(held) = Len(e.held) + Len(item.bytes) /\ flags \in Nat
            /\ full => /\ Extended(e, data).out = e.out \o (<<flags>> \o held)
                       /\ Extended(e, data).count = 0
            /\ ~full => /\ Extended(e, data).out = e.out /\ Extended(e, data).held = held
                        /\ Extended(e, data).flags = flags /\ Extended(e, data).weight = 2 * e.weight
                        /\ Extended(e, data).count = e.count + 1
<1> DEFINE item == Coded(data, e.pos)
           held == e.held \o item.bytes
           flags == e.flags + item.flag * e.weight
           full == e.count + 1 = Group \/ e.pos + item.length = Len(data)
           a == Added(e, item)
           c == Closed(a)
<1>1. /\ e.pos \in Nat /\ e.pos \in 0 .. Len(data) - 1 /\ e.out \in Seq(Nat) /\ e.flags \in Nat
      /\ e.weight \in Nat /\ e.weight > 0 /\ e.held \in Seq(Nat) /\ e.count \in Nat /\ e.count < Group
      /\ Len(data) \in Nat
  BY DEF IsEncoder
<1>2. /\ item.flag = 0 \/ item.flag = 1
      /\ item.bytes \in Seq(Nat) /\ Len(item.bytes) \in Nat /\ Len(item.bytes) > 0
      /\ item.length \in Nat /\ item.length > 0 /\ e.pos + item.length <= Len(data)
  BY <1>1, CodedIs
<1>3. Extended(e, data) = IF a.count = Group \/ a.pos = Len(data) THEN c ELSE a
  BY DEF Extended
<1> HIDE DEF item
<1>4. flags \in Nat /\ held \in Seq(Nat) /\ Len(held) = Len(e.held) + Len(item.bytes)
  <2>1. item.flag * e.weight \in Nat
    BY <1>1, <1>2
  <2>2. flags \in Nat
    BY <1>1, <2>1
  <2> QED BY <1>1, <1>2, <2>2
<1>5. /\ a.pos = e.pos + item.length /\ a.out = e.out /\ a.flags = flags
      /\ a.weight = 2 * e.weight /\ a.held = held /\ a.count = e.count + 1
  BY DEF Added
<1> HIDE DEF flags, held, a
<1>6. /\ c.pos = e.pos + item.length /\ c.out = e.out \o (<<flags>> \o held) /\ c.count = 0
      /\ c.flags = 0 /\ c.weight = 1 /\ c.held = <<>>
  BY <1>5 DEF Closed
<1> HIDE DEF c
<1>7. e.pos + item.length \in Nat /\ 2 * e.weight \in Nat /\ 2 * e.weight > 0 /\ e.count + 1 \in Nat
      /\ e.count + 1 # 0
  <2>1. e.pos + item.length \in Nat
    BY <1>1, <1>2
  <2>2. e.count + 1 \in Nat /\ e.count + 1 # 0
    BY <1>1
  <2>3. 2 * e.weight \in Nat /\ 2 * e.weight > 0
    BY <1>1
  <2> QED BY <2>1, <2>2, <2>3
<1>8. e.out \o (<<flags>> \o held) \in Seq(Nat) /\ <<>> \in Seq(Nat)
  <2>1. <<flags>> \in Seq(Nat)
    BY <1>4
  <2>2. <<flags>> \o held \in Seq(Nat)
    BY <1>4, <2>1
  <2> QED BY <1>1, <2>2
<1>9. Group \in Nat /\ Group > 0
  BY LzssNumbers
<1>10. CASE full
  <2>1. Extended(e, data) = c
    BY <1>3, <1>5, <1>10
  <2>2. IsEncoder(c, data)
    BY <1>2, <1>6, <1>7, <1>8, <1>9 DEF IsEncoder
  <2> QED BY <1>4, <1>6, <1>10, <2>1, <2>2 DEF flags, held, item
<1>11. CASE ~full
  <2>1. Extended(e, data) = a
    BY <1>3, <1>5, <1>11
  <2>2. e.count + 1 < Group /\ e.pos + item.length # Len(data)
    BY <1>1, <1>9, <1>11
  <2>3. IsEncoder(a, data)
    BY <1>1, <1>2, <1>4, <1>5, <1>7, <2>2 DEF IsEncoder
  <2> QED BY <1>4, <1>5, <1>11, <2>1, <2>3 DEF flags, held, item
<1> QED BY <1>10, <1>11

\* input is what the encoder has written up to e, and what it will.
Covers(input, e) ==
  /\ Holds(input, 0, e.out)
  /\ e.count > 0 => \E q \in Nat : /\ Len(e.out) + 1 <= Len(input)
                                   /\ ByteAt(input, Len(e.out)) = e.flags + e.weight * q
                                   /\ Holds(input, Len(e.out) + 1, e.held)

\* An input that has what was written after an item has what was written
\* before it, the bytes of the item and its flag.
LEMMA CoversBack ==
  ASSUME LzssAssumption, NEW data \in Seq(Nat), NEW e, IsEncoder(e, data), e.pos < Len(data),
         NEW input \in Seq(Nat), Covers(input, Extended(e, data))
  PROVE  /\ Covers(input, e)
         /\ Len(e.out) + 1 <= Len(input)
         /\ Holds(input, Len(e.out) + 1 + Len(e.held), Coded(data, e.pos).bytes)
         /\ \E q \in Nat :
              /\ ByteAt(input, Len(e.out)) = e.flags + e.weight * (Coded(data, e.pos).flag + 2 * q)
              /\ LET f == Extended(e, data)
                 IN f.count > 0 => ByteAt(input, Len(f.out)) = f.flags + f.weight * q
<1> DEFINE item == Coded(data, e.pos)
           held == e.held \o item.bytes
           flags == e.flags + item.flag * e.weight
           full == e.count + 1 = Group \/ e.pos + item.length = Len(data)
           f == Extended(e, data)
           n == Len(e.out)
<1>1. /\ e.pos \in Nat /\ e.pos \in 0 .. Len(data) - 1 /\ e.out \in Seq(Nat) /\ e.flags \in Nat
      /\ e.weight \in Nat /\ e.weight > 0 /\ e.held \in Seq(Nat) /\ e.count \in Nat /\ e.count < Group
  BY DEF IsEncoder
<1>2. /\ item.flag = 0 \/ item.flag = 1
      /\ item.bytes \in Seq(Nat) /\ Len(item.bytes) \in Nat
  BY <1>1, CodedIs
<1>3. /\ held \in Seq(Nat) /\ flags \in Nat
      /\ full => f.out = e.out \o (<<flags>> \o held) /\ f.count = 0
      /\ ~full => /\ f.out = e.out /\ f.held = held /\ f.flags = flags /\ f.weight = 2 * e.weight
                  /\ f.count = e.count + 1
  BY ExtendedIs
<1>4. n \in Nat /\ Len(e.held) \in Nat /\ 0 \in Nat
  BY <1>1
<1> HIDE DEF item, flags, f, n
<1>5. Holds(input, 0, e.out) /\ n + 1 <= Len(input) /\ Holds(input, n + 1, held)
      /\ \E q \in Nat : /\ ByteAt(input, n) = flags + (2 * e.weight) * q
                        /\ f.count > 0 => ByteAt(input, Len(f.out)) = f.flags + f.weight * q
  <2> HIDE DEF held, full
  <2>1. CASE full
    <3>1. Holds(input, 0, e.out \o (<<flags>> \o held))
      BY <1>3, <2>1 DEF Covers, f
    <3>2. <<flags>> \in Seq(Nat) /\ <<flags>> \o held \in Seq(Nat)
      BY <1>3
    <3>3. Holds(input, 0, e.out) /\ Holds(input, 0 + n, <<flags>> \o held)
      BY <1>1, <1>4, <3>1, <3>2, HoldsBoth DEF n
    <3>4. Holds(input, n, <<flags>> \o held)
      BY <1>4, <3>3
    <3>5. Holds(input, n, <<flags>>) /\ Holds(input, n + Len(<<flags>>), held)
      BY <1>3, <1>4, <3>2, <3>4, HoldsBoth
    <3>6. n + 1 <= Len(input) /\ ByteAt(input, n) = flags
      BY <1>3, <1>4, <3>5, HoldsFew
    <3>7. n + Len(<<flags>>) = n + 1
      BY <1>3, <1>4
    <3>8. ByteAt(input, n) = flags + (2 * e.weight) * 0 /\ ~(f.count > 0)
      BY <1>1, <1>3, <2>1, <3>6
    <3> QED BY <1>4, <3>3, <3>5, <3>6, <3>7, <3>8
  <2>2. CASE ~full
    <3>1. f.out = e.out /\ f.held = held /\ f.flags = flags /\ f.weight = 2 * e.weight /\ f.count = e.count + 1
      BY <1>3, <2>2
    <3>2. f.count > 0
      BY <1>1, <3>1
    <3>3. Covers(input, f)
      BY DEF f
    <3>4. /\ Holds(input, 0, f.out)
          /\ \E q \in Nat : /\ Len(f.out) + 1 <= Len(input)
                            /\ ByteAt(input, Len(f.out)) = f.flags + f.weight * q
                            /\ Holds(input, Len(f.out) + 1, f.held)
      BY <3>2, <3>3 DEF Covers
    <3> QED BY <3>1, <3>4 DEF n
  <2> QED BY <2>1, <2>2
<1>6. Holds(input, n + 1, e.held) /\ Holds(input, n + 1 + Len(e.held), item.bytes)
  <2>1. n + 1 \in Nat
    BY <1>4
  <2> QED BY <1>1, <1>2, <1>5, <2>1, HoldsBoth
<1>7. PICK q \in Nat : /\ ByteAt(input, n) = flags + (2 * e.weight) * q
                       /\ f.count > 0 => ByteAt(input, Len(f.out)) = f.flags + f.weight * q
  BY <1>5
<1>8. item.flag + 2 * q \in Nat /\ item.flag \in Nat
  BY <1>2
<1>9. ByteAt(input, n) = e.flags + e.weight * (item.flag + 2 * q)
  <2>1. ASSUME NEW a \in Nat, NEW w \in Nat, NEW x \in Nat, NEW y \in Nat
        PROVE  (a + x * w) + (2 * w) * y = a + w * (x + 2 * y)
    OBVIOUS
  <2>2. ByteAt(input, n) = (e.flags + item.flag * e.weight) + (2 * e.weight) * q
    BY <1>7 DEF flags
  <2>3. e.flags \in Nat /\ e.weight \in Nat
    BY <1>1
  <2> DEFINE a == e.flags
             w == e.weight
             x == item.flag
  <2>4. a \in Nat /\ w \in Nat /\ x \in Nat /\ ByteAt(input, n) = (a + x * w) + (2 * w) * q
    BY <1>8, <2>2, <2>3
  <2> HIDE DEF a, w, x
  <2>5. ByteAt(input, n) = a + w * (x + 2 * q)
    BY ONLY <2>1, <2>4, q \in Nat
  <2> QED BY <2>5 DEF a, w, x
<1>10. Covers(input, e)
  BY <1>5, <1>6, <1>8, <1>9 DEF Covers, n
<1> QED BY <1>5, <1>6, <1>7, <1>9, <1>10 DEF n, f, item

\* The decoder has got as far as the encoder had at e.
Reached(input, e, s, data) ==
  /\ s.ok = TRUE /\ s.out = Start(data, e.pos)
  /\ e.count = 0 => s.pos = Len(e.out) /\ (e.pos < Len(data) => s.left = 0)
  /\ e.count > 0 => /\ s.pos = Len(e.out) + 1 + Len(e.held)
                    /\ s.left = Group - e.count
                    /\ s.flags \in Nat /\ ByteAt(input, Len(e.out)) = e.flags + e.weight * s.flags

\* The length of bytes, one byte and further bytes.
LEMMA LenAfterOne ==
  ASSUME NEW a \in Seq(Nat), NEW x \in Nat, NEW b \in Seq(Nat)
  PROVE  Len(a \o (<<x>> \o b)) = Len(a) + (1 + Len(b))
<1>1. <<x>> \in Seq(Nat)
  OBVIOUS
<1>2. <<x>> \o b \in Seq(Nat) /\ Len(<<x>> \o b) = 1 + Len(b)
  BY <1>1
<1> QED BY <1>2

\* An item further.
LEMMA ReachedOn ==
  ASSUME LzssAssumption, NEW data \in Seq(Nat), NEW e, IsEncoder(e, data), e.pos < Len(data),
         NEW input \in Seq(Nat), Covers(input, Extended(e, data)), NEW D,
         \A i \in 1 .. 2 * Len(input) : D[i] = Decompressed(D[i - 1], input, Len(data)),
         NEW n \in 0 .. 2 * Len(input), n <= D[n].pos, Reached(input, e, D[n], data)
  PROVE  \E m \in 0 .. 2 * Len(input) :
           m <= D[m].pos /\ Reached(input, Extended(e, data), D[m], data)
<1> DEFINE item == Coded(data, e.pos)
           f == Extended(e, data)
           top == Len(e.out) + 1 + Len(e.held)
           size == Len(data)
           all == Len(input)
<1>0. e.out \in Seq(Nat) /\ e.held \in Seq(Nat)
  BY DEF IsEncoder
<1>1. /\ e.pos \in Nat /\ e.pos \in 0 .. size - 1 /\ e.pos \in 0 .. size /\ e.flags \in Nat
      /\ e.weight \in Nat /\ e.weight > 0 /\ e.count \in Nat /\ e.count < Group
      /\ Group \in Nat /\ Len(e.out) \in Nat /\ Len(e.held) \in Nat /\ top \in Nat /\ size \in Nat
      /\ all \in Nat /\ e.pos < size
  <2>1. Len(e.out) \in Nat /\ Len(e.held) \in Nat /\ size \in Nat /\ all \in Nat
    BY <1>0
  <2>2. Group \in Nat
    BY LzssNumbers
  <2>3. /\ e.pos \in Nat /\ e.pos < size /\ e.flags \in Nat /\ e.weight \in Nat /\ e.weight > 0
        /\ e.count \in Nat /\ e.count < Group
    BY DEF IsEncoder
  <2> HIDE DEF size, all
  <2>4. e.pos \in 0 .. size - 1 /\ e.pos \in 0 .. size
    BY <2>1, <2>3
  <2>5. top \in Nat
    <3>1. ASSUME NEW x \in Nat, NEW y \in Nat PROVE x + 1 + y \in Nat
      OBVIOUS
    <3>2. Len(e.out) \in Nat /\ Len(e.held) \in Nat
      BY <2>1
    <3> QED BY ONLY <3>1, <3>2 DEF top
  <2> HIDE DEF top
  <2> QED BY <2>1, <2>2, <2>3, <2>4, <2>5
<1>a. /\ item.flag = 0 \/ item.flag = 1
      /\ item.bytes \in Seq(Nat) /\ Len(item.bytes) \in Nat /\ Len(item.bytes) > 0
      /\ item.length \in Nat /\ item.length > 0 /\ e.pos + item.length <= size
  BY <1>1, CodedIs
<1>2. /\ item.flag \in Nat
      /\ Len(item.bytes) \in Nat /\ Len(item.bytes) > 0
      /\ item.length \in Nat /\ item.length > 0 /\ e.pos + item.length <= size
  BY <1>a
<1>3. Len(Start(data, e.pos)) = e.pos /\ ~(Len(Start(data, e.pos)) = size)
  <2>1. Len(Start(data, e.pos)) = e.pos
    BY <1>1, StartIs
  <2> QED BY <1>1, <2>1
<1>4. Covers(input, e) /\ Len(e.out) + 1 <= all /\ Holds(input, top, item.bytes)
  BY CoversBack
<1>5. PICK q \in Nat :
         /\ ByteAt(input, Len(e.out)) = e.flags + e.weight * (item.flag + 2 * q)
         /\ f.count > 0 => ByteAt(input, Len(f.out)) = f.flags + f.weight * q
  BY CoversBack
<1>6. top + Len(item.bytes) <= all
  BY <1>4 DEF Holds
<1> HIDE DEF item, f, top, size, all
<1>7. \E m \in 0 .. all : 
         /\ m <= D[m].pos /\ D[m].ok = TRUE /\ D[m].out = Start(data, e.pos) /\ D[m].pos = top
         /\ D[m].left = Group - e.count /\ D[m].flags \in Nat
         /\ ByteAt(input, Len(e.out)) = e.flags + e.weight * D[m].flags
  <2>1. D[n].ok = TRUE /\ D[n].out = Start(data, e.pos)
    BY DEF Reached
  <2>2. CASE e.count = 0
    <3>1. D[n].pos = Len(e.out) /\ D[n].left = 0
      BY <1>1, <2>2 DEF Reached, size
    <3>2. e.held = <<>> /\ e.flags = 0 /\ e.weight = 1
      BY <2>2 DEF IsEncoder
    <3>3. top = Len(e.out) + 1
      BY <1>1, <3>2 DEF top
    <3>4. n \in Nat /\ n + 1 \in 1 .. 2 * all /\ (n + 1) - 1 = n /\ n + 1 \in 0 .. all
      <4>1. n \in Nat /\ n <= Len(e.out) /\ Len(e.out) + 1 <= all /\ Len(e.out) \in Nat /\ all \in Nat
        BY <1>1, <1>4, <3>1
      <4> QED BY ONLY <4>1
    <3>5. D[n + 1] = Decompressed(D[n], input, size)
      BY <3>4 DEF size, all
    <3>6. ~(D[n].left > 0) /\ ~(D[n].pos >= all)
      BY <1>1, <1>4, <3>1
    <3>7. D[n + 1] = Taken(Len(e.out) + 1, Start(data, e.pos), ByteAt(input, Len(e.out)), Group)
      BY <1>3, <2>1, <3>1, <3>5, <3>6 DEF Decompressed, all
    <3>8. /\ D[n + 1].pos = top /\ D[n + 1].out = Start(data, e.pos) /\ D[n + 1].ok = TRUE
          /\ D[n + 1].flags = ByteAt(input, Len(e.out)) /\ D[n + 1].left = Group
      BY <3>3, <3>7 DEF Taken
    <3>9. ByteAt(input, Len(e.out)) \in Nat
      <4>1. Len(e.out) + 1 \in 1 .. Len(input)
        BY <1>1, <1>4 DEF all
      <4> QED BY <4>1 DEF ByteAt
    <3>10. /\ n + 1 <= top /\ Group = Group - e.count
           /\ ByteAt(input, Len(e.out)) = e.flags + e.weight * ByteAt(input, Len(e.out))
      <4>1. n + 1 <= top
        BY <1>1, <3>1, <3>3, <3>4
      <4>2. Group = Group - e.count
        BY <1>1, <2>2
      <4> QED BY <3>2, <3>9, <4>1, <4>2
    <3> QED BY <3>4, <3>8, <3>9, <3>10
  <2>3. CASE e.count > 0
    <3>1. /\ D[n].pos = top /\ D[n].left = Group - e.count
          /\ D[n].flags \in Nat /\ ByteAt(input, Len(e.out)) = e.flags + e.weight * D[n].flags
      BY <2>3 DEF Reached, top
    <3>2. n \in 0 .. all
      BY <1>1, <1>2, <1>6, <3>1
    <3> QED BY <2>1, <3>1, <3>2
  <2>4. e.count = 0 \/ e.count > 0
    BY <1>1
  <2> QED BY <2>2, <2>3, <2>4
<1>8. PICK m \in 0 .. all :
         /\ m <= D[m].pos /\ D[m].ok = TRUE /\ D[m].out = Start(data, e.pos) /\ D[m].pos = top
         /\ D[m].left = Group - e.count /\ D[m].flags \in Nat
         /\ ByteAt(input, Len(e.out)) = e.flags + e.weight * D[m].flags
  BY <1>7
<1>9. D[m].flags = item.flag + 2 * q
  <2> DEFINE a == D[m].flags
             b == item.flag + 2 * q
             w == e.weight
  <2>1. a \in Nat /\ b \in Nat /\ w \in Nat /\ w > 0
    <3>1. item.flag \in Nat
      BY <1>2
    <3>2. item.flag + 2 * q \in Nat
      BY <3>1
    <3> QED BY <1>1, <1>8, <3>2
  <2>2. e.flags + w * a = e.flags + w * b
    BY <1>5, <1>8
  <2> HIDE DEF a, b, w
  <2>3. w * a \in Nat /\ w * b \in Nat /\ w * a = a * w /\ w * b = b * w
    BY <2>1
  <2>4. a * w = b * w
    BY <1>1, <2>2, <2>3
  <2>5. (a < b => a * w + w <= b * w) /\ (b < a => b * w + w <= a * w)
    BY ONLY <2>1, ProductBelow
  <2>6. a = b
    BY ONLY <2>1, <2>3, <2>4, <2>5
  <2> QED BY <2>6 DEF a, b
<1>10. Item(D[m], input, size) = Taken(top + Len(item.bytes), Start(data, e.pos + item.length), q, (Group - e.count) - 1)
  <2>1. D[m].pos \in Nat /\ D[m].flags = Coded(data, e.pos).flag + 2 * q /\ e.pos \in 0 .. Len(data) - 1
        /\ Holds(input, D[m].pos, Coded(data, e.pos).bytes)
    BY <1>1, <1>4, <1>8, <1>9 DEF item, size
  <2>2. Item(D[m], input, Len(data)) =
          Taken(D[m].pos + Len(Coded(data, e.pos).bytes), Start(data, e.pos + Coded(data, e.pos).length),
                q, D[m].left - 1)
    <3> DEFINE s == D[m]
               at == e.pos
    <3>1. /\ s.out = Start(data, at) /\ s.flags \in Nat /\ s.pos \in Nat
          /\ s.flags = Coded(data, at).flag + 2 * q /\ Holds(input, s.pos, Coded(data, at).bytes)
      BY <1>8, <2>1
    <3>2. at \in 0 .. Len(data) - 1
      BY <2>1
    <3> HIDE DEF s, at
    <3>3. Item(s, input, Len(data)) =
            Taken(s.pos + Len(Coded(data, at).bytes), Start(data, at + Coded(data, at).length), q, s.left - 1)
      BY ONLY <3>1, <3>2, ItemIs, LzssAssumption, data \in Seq(Nat), input \in Seq(Nat), q \in Nat
    <3> QED BY <3>3 DEF s, at
  <2> QED BY <1>8, <2>2 DEF item, size
<1>11. m \in Nat /\ m + 1 \in 1 .. 2 * all /\ (m + 1) - 1 = m /\ m + 1 \in 0 .. 2 * all /\ m <= top
  <2>1. m \in Nat /\ m <= top /\ top \in Nat /\ all \in Nat
    BY <1>1, <1>8
  <2>2. top + Len(item.bytes) <= all /\ Len(item.bytes) \in Nat /\ Len(item.bytes) > 0
    BY <1>2, <1>6
  <2> QED BY ONLY <2>1, <2>2
<1>12. D[m + 1] = Decompressed(D[m], input, size)
  BY <1>11 DEF all, size
<1>13. D[m].left > 0
  BY <1>1, <1>8
<1>14. D[m + 1] = Taken(top + Len(item.bytes), Start(data, e.pos + item.length), q, (Group - e.count) - 1)
  BY <1>3, <1>8, <1>10, <1>12, <1>13 DEF Decompressed
<1>15. /\ D[m + 1].pos = top + Len(item.bytes) /\ D[m + 1].out = Start(data, e.pos + item.length)
       /\ D[m + 1].flags = q /\ D[m + 1].left = (Group - e.count) - 1 /\ D[m + 1].ok = TRUE
  BY <1>14 DEF Taken
<1>16. m + 1 <= D[m + 1].pos
  <2>1. m \in Nat /\ m <= top /\ top \in Nat /\ D[m + 1].pos = top + Len(item.bytes)
    BY <1>1, <1>11, <1>15
  <2>2. Len(item.bytes) \in Nat /\ Len(item.bytes) > 0
    BY <1>2
  <2> QED BY ONLY <2>1, <2>2
<1>17. Reached(input, f, D[m + 1], data)
  <2> DEFINE held == e.held \o item.bytes
             flags == e.flags + item.flag * e.weight
             full == e.count + 1 = Group \/ e.pos + item.length = size
  <2>1. /\ f.pos = e.pos + item.length
        /\ held \in Seq(Nat) /\ Len(held) = Len(e.held) + Len(item.bytes) /\ flags \in Nat
        /\ full => f.out = e.out \o (<<flags>> \o held) /\ f.count = 0
        /\ ~full => f.out = e.out /\ f.held = held /\ f.count = e.count + 1
    BY ExtendedIs DEF f, item, size
  <2> HIDE DEF held, flags
  <2>2. CASE full
    <3>1. Len(f.out) = D[m + 1].pos
      <4>1. <<flags>> \in Seq(Nat)
        BY <2>1
      <4>2. Len(e.out \o (<<flags>> \o held)) = Len(e.out) + (1 + Len(held))
        BY <1>0, <2>1, <4>1, LenAfterOne
      <4>4. Len(f.out) = Len(e.out) + (1 + (Len(e.held) + Len(item.bytes)))
        BY <2>1, <2>2, <4>2
      <4>5. D[m + 1].pos = Len(e.out) + 1 + Len(e.held) + Len(item.bytes)
        BY <1>15 DEF top
      <4>6. Len(e.out) \in Nat /\ Len(e.held) \in Nat /\ Len(item.bytes) \in Nat
        BY <1>1, <1>2
      <4>7. ASSUME NEW x \in Nat, NEW y \in Nat, NEW z \in Nat PROVE x + (1 + (y + z)) = x + 1 + y + z
        OBVIOUS
      <4>8. Len(e.out) + (1 + (Len(e.held) + Len(item.bytes))) = Len(e.out) + 1 + Len(e.held) + Len(item.bytes)
        BY ONLY <4>6, <4>7
      <4> QED BY ONLY <4>4, <4>5, <4>8
    <3>2. f.pos < size => D[m + 1].left = 0
      <4>1. f.pos < size => e.count + 1 = Group
        BY <1>1, <2>1, <2>2
      <4> QED BY <1>1, <1>15, <4>1
    <3>3. f.count = 0
      BY <2>1, <2>2
    <3>4. ~(f.count > 0)
      BY <3>3
    <3> QED BY <1>15, <2>1, <3>1, <3>2, <3>3, <3>4 DEF Reached, size
  <2>3. CASE ~full
    <3>1. f.out = e.out /\ f.held = held /\ f.count = e.count + 1
      BY <2>1, <2>3
    <3>2. D[m + 1].pos = Len(f.out) + 1 + Len(f.held)
      <4>1. D[m + 1].pos = Len(e.out) + 1 + Len(e.held) + Len(item.bytes)
        BY <1>15 DEF top
      <4>2. Len(f.held) = Len(e.held) + Len(item.bytes) /\ Len(f.out) = Len(e.out)
        BY <2>1, <3>1
      <4>3. Len(e.out) \in Nat /\ Len(e.held) \in Nat /\ Len(item.bytes) \in Nat
        BY <1>1, <1>2
      <4>4. ASSUME NEW x \in Nat, NEW y \in Nat, NEW z \in Nat PROVE x + 1 + y + z = x + 1 + (y + z)
        OBVIOUS
      <4>5. Len(e.out) + 1 + Len(e.held) + Len(item.bytes) = Len(e.out) + 1 + (Len(e.held) + Len(item.bytes))
        BY ONLY <4>3, <4>4
      <4> QED BY ONLY <4>1, <4>2, <4>5
    <3>3. D[m + 1].left = Group - f.count /\ f.count > 0 /\ ~(f.count = 0)
      <4>1. e.count \in Nat /\ Group \in Nat /\ f.count = e.count + 1 /\ D[m + 1].left = (Group - e.count) - 1
        BY <1>1, <1>15, <3>1
      <4>2. (Group - e.count) - 1 = Group - (e.count + 1) /\ e.count + 1 > 0 /\ ~(e.count + 1 = 0)
        BY ONLY <4>1, OneLess
      <4> QED BY ONLY <4>1, <4>2
    <3>4. ByteAt(input, Len(f.out)) = f.flags + f.weight * D[m + 1].flags /\ D[m + 1].flags \in Nat
      BY <1>5, <1>15, <3>3
    <3> QED BY <1>15, <2>1, <3>2, <3>3, <3>4 DEF Reached
  <2> QED BY <2>2, <2>3
<1>18. m + 1 \in 0 .. 2 * Len(input)
  BY <1>11 DEF all
<1> QED BY <1>16, <1>17, <1>18 DEF f

\* What is compressed comes out of the decompression as it was, whatever the
\* bytes are, however long the matches, however many items there are to a byte
\* of flags and whatever the hash finds.
THEOREM RoundTrip ==
  ASSUME LzssAssumption, NEW data \in Seq(Nat)
  PROVE  /\ lzss_compress(data) \in Seq(Nat)
         /\ lzss_decompress(lzss_compress(data), Len(data)) = [ok |-> TRUE, out |-> data]
<1> DEFINE N == Len(data)
           input == lzss_compress(data)
           all == Len(input)
<1>0. N \in Nat
  OBVIOUS
<1>1. PICK E : /\ input = E[N].out /\ E[0] = Opened
               /\ \A i \in 1 .. N : E[i] = IF E[i - 1].pos = N THEN E[i - 1] ELSE Extended(E[i - 1], data)
  BY <1>0, CompressIs
<1> HIDE DEF input
<1> DEFINE S == {k \in 0 .. N : IsEncoder(E[k], data) /\ k <= E[k].pos}
<1>2. 0 \in S
  <2>1. /\ Opened.pos = 0 /\ Opened.out = <<>> /\ Opened.flags = 0 /\ Opened.weight = 1
        /\ Opened.held = <<>> /\ Opened.count = 0 /\ <<>> \in Seq(Nat)
    BY DEF Opened
  <2>2. 0 < Group
    BY LzssNumbers
  <2>3. IsEncoder(Opened, data)
    BY <1>0, <2>1, <2>2 DEF IsEncoder
  <2> QED BY <1>0, <1>1, <2>1, <2>3
<1>3. Steps(S, N)
  <2> SUFFICES ASSUME NEW k \in 0 .. N - 1, k \in S PROVE k + 1 \in S
    BY DEF Steps
  <2>1. IsEncoder(E[k], data) /\ k <= E[k].pos
    OBVIOUS
  <2>2. k + 1 \in 1 .. N /\ k + 1 \in 0 .. N /\ (k + 1) - 1 = k /\ k \in Nat
    BY <1>0
  <2>3. E[k].pos \in Nat /\ E[k].pos <= N
    BY <2>1 DEF IsEncoder
  <2> HIDE DEF N, S
  <2>4. E[k + 1] = IF E[k].pos = N THEN E[k] ELSE Extended(E[k], data)
    BY <1>1, <2>2
  <2>5. IsEncoder(E[k + 1], data) /\ k + 1 <= E[k + 1].pos
    <3>1. CASE E[k].pos = N
      BY <1>0, <2>1, <2>2, <2>4, <3>1
    <3>2. CASE E[k].pos # N
      <4>1. E[k].pos < N /\ E[k].pos \in 0 .. N - 1
        BY <1>0, <2>3, <3>2
      <4>2. /\ IsEncoder(Extended(E[k], data), data)
            /\ Extended(E[k], data).pos = E[k].pos + Coded(data, E[k].pos).length
        BY <2>1, <4>1, ExtendedIs DEF N
      <4>3. Coded(data, E[k].pos).length \in Nat /\ Coded(data, E[k].pos).length > 0
        BY <4>1, CodedIs DEF N
      <4>4. k + 1 <= E[k].pos + Coded(data, E[k].pos).length
        BY <2>1, <2>2, <2>3, <4>3
      <4> QED BY <2>4, <3>2, <4>2, <4>4
    <3> QED BY <3>1, <3>2
  <2> QED BY <2>2, <2>5 DEF S
<1>4. ASSUME NEW k \in 0 .. N PROVE IsEncoder(E[k], data) /\ k <= E[k].pos
  <2>1. \A i \in 0 .. N : i \in S
    <3> HIDE DEF S, N
    <3> QED BY <1>0, <1>2, <1>3, UpTo
  <2> QED BY <2>1
<1> HIDE DEF S, N
<1>5. E[N].pos = N /\ E[N].count = 0 /\ input \in Seq(Nat)
  <2>1. N \in 0 .. N
    BY <1>0
  <2>2. IsEncoder(E[N], data) /\ N <= E[N].pos
    BY <1>4, <2>1
  <2>3. E[N].pos \in Nat /\ E[N].pos <= N /\ E[N].out \in Seq(Nat) /\ (E[N].pos = N => E[N].count = 0)
    BY <2>2 DEF IsEncoder, N
  <2>4. E[N].pos = N
    BY <1>0, <2>2, <2>3
  <2> QED BY <1>1, <2>3, <2>4
\* what was written stays written
<1> DEFINE B == {k \in 0 .. N : Covers(input, E[N - k])}
<1>6. 0 \in B
  <2>1. Holds(input, 0, input)
    <3>1. Len(input) \in Nat /\ 0 + Len(input) <= Len(input) /\ \A i \in 1 .. Len(input) : 0 + i = i
      BY <1>5
    <3> QED BY <3>1 DEF Holds
  <2>2. N - 0 = N /\ ~(E[N].count > 0)
    BY <1>0, <1>5
  <2> QED BY <1>0, <1>1, <1>5, <2>1, <2>2 DEF Covers
<1>7. Steps(B, N)
  <2> SUFFICES ASSUME NEW k \in 0 .. N - 1, k \in B PROVE k + 1 \in B
    BY DEF Steps
  <2> DEFINE j == N - (k + 1)
  <2>1. j \in 0 .. N /\ j + 1 \in 1 .. N /\ (j + 1) - 1 = j /\ N - k = j + 1 /\ k + 1 \in 0 .. N
    BY <1>0
  <2>2. Covers(input, E[j + 1])
    <3>1. Covers(input, E[N - k])
      OBVIOUS
    <3> QED BY <2>1, <3>1
  <2> HIDE DEF j, B
  <2>3. E[j + 1] = IF E[j].pos = N THEN E[j] ELSE Extended(E[j], data)
    BY <1>1, <2>1
  <2>4. Covers(input, E[j])
    <3>1. CASE E[j].pos = N
      BY <2>2, <2>3, <3>1
    <3>2. CASE E[j].pos # N
      <4>1. IsEncoder(E[j], data)
        BY <1>4, <2>1
      <4>2. E[j].pos < N
        <5>1. E[j].pos \in Nat /\ E[j].pos <= N
          BY <4>1 DEF IsEncoder, N
        <5> QED BY <1>0, <3>2, <5>1
      <4>3. Covers(input, Extended(E[j], data))
        BY <2>2, <2>3, <3>2
      <4> QED BY <1>5, <4>1, <4>2, <4>3, CoversBack DEF N
    <3> QED BY <3>1, <3>2
  <2> QED BY <2>1, <2>4 DEF B, j
<1>8. ASSUME NEW k \in 0 .. N PROVE Covers(input, E[k])
  <2>1. \A i \in 0 .. N : i \in B
    <3> HIDE DEF B
    <3> QED BY <1>0, <1>6, <1>7, UpTo
  <2>2. N - k \in 0 .. N /\ N - (N - k) = k
    BY <1>0
  <2> QED BY <2>1, <2>2
<1> HIDE DEF B
<1>9. 2 * all \in Nat /\ all \in Nat
  BY <1>5
<1>10. PICK D : /\ lzss_decompress(input, N) = [ok |-> D[2 * all].ok /\ D[2 * all].pos = all
                     /\ Len(D[2 * all].out) = N,
                                                 out |-> D[2 * all].out]
                /\ D[0] = Taken(0, <<>>, 0, 0)
                /\ \A i \in 1 .. 2 * all : D[i] = Decompressed(D[i - 1], input, N)
  BY <1>9, DecompressIs
\* the decoder gets as far as the encoder
<1> DEFINE R(k, n) == n <= D[n].pos /\ Reached(input, E[k], D[n], data)
           T == {k \in 0 .. N : \E n \in 0 .. 2 * all : R(k, n)}
<1>11. 0 \in T
  <2>1. /\ D[0].pos = 0 /\ D[0].out = <<>> /\ D[0].left = 0 /\ D[0].ok = TRUE
    BY <1>10 DEF Taken
  <2>2. Opened.pos = 0 /\ Opened.out = <<>> /\ Opened.count = 0
    BY DEF Opened
  <2>3. Start(data, 0) = <<>>
    BY DEF Start
  <2>4. Len(<<>>) = 0 /\ ~(0 > 0)
    OBVIOUS
  <2>5. Reached(input, E[0], D[0], data)
    BY <1>1, <2>1, <2>2, <2>3, <2>4 DEF Reached
  <2>6. 0 \in 0 .. 2 * all /\ 0 <= D[0].pos /\ 0 \in 0 .. N
    BY <1>0, <1>9, <2>1
  <2> QED BY <2>5, <2>6
<1>12. Steps(T, N)
  <2> SUFFICES ASSUME NEW k \in 0 .. N - 1, k \in T PROVE k + 1 \in T
    BY DEF Steps
  <2>1. PICK n \in 0 .. 2 * all : R(k, n)
    OBVIOUS
  <2> HIDE DEF T
  <2>2. k + 1 \in 1 .. N /\ k + 1 \in 0 .. N /\ k \in 0 .. N /\ (k + 1) - 1 = k
    BY <1>0
  <2>3. E[k + 1] = IF E[k].pos = N THEN E[k] ELSE Extended(E[k], data)
    BY <1>1, <2>2
  <2>4. \E m \in 0 .. 2 * all : R(k + 1, m)
    <3>1. CASE E[k].pos = N
      BY <2>1, <2>3, <3>1
    <3>2. CASE E[k].pos # N
      <4>1. IsEncoder(E[k], data)
        BY <1>4, <2>2
      <4>2. E[k].pos < N
        <5>1. E[k].pos \in Nat /\ E[k].pos <= N
          BY <4>1 DEF IsEncoder, N
        <5> QED BY <1>0, <3>2, <5>1
      <4>3. Covers(input, Extended(E[k], data))
        <5>1. Covers(input, E[k + 1])
          BY <1>8, <2>2
        <5> QED BY <2>3, <3>2, <5>1
      <4>4. \E m \in 0 .. 2 * all : m <= D[m].pos /\ Reached(input, Extended(E[k], data), D[m], data)
        BY <1>5, <1>10, <2>1, <4>1, <4>2, <4>3, ReachedOn DEF N
      <4> QED BY <2>3, <3>2, <4>4
    <3> QED BY <3>1, <3>2
  <2> QED BY <2>2, <2>4 DEF T
<1>13. PICK n \in 0 .. 2 * all : R(N, n)
  <2>1. \A i \in 0 .. N : i \in T
    <3> HIDE DEF T
    <3> QED BY <1>0, <1>11, <1>12, UpTo
  <2>2. N \in 0 .. N
    BY <1>0
  <2> QED BY <2>1, <2>2
<1>14. D[n].ok = TRUE /\ D[n].out = data /\ D[n].pos = all
  <2>1. D[n].ok = TRUE /\ D[n].out = Start(data, N) /\ D[n].pos = Len(E[N].out)
    BY <1>5, <1>13 DEF Reached
  <2>2. Start(data, N) = data
    BY DEF Start, N
  <2> QED BY <1>1, <2>1, <2>2
\* and stays there
<1> DEFINE U == {k \in 0 .. 2 * all - n : D[n + k] = D[n]}
<1>15. 0 \in U
  BY <1>9
<1>16. Steps(U, 2 * all - n)
  <2> SUFFICES ASSUME NEW k \in 0 .. (2 * all - n) - 1, k \in U PROVE k + 1 \in U
    BY DEF Steps
  <2>1. D[n + k] = D[n]
    OBVIOUS
  <2> HIDE DEF U
  <2>2. k + 1 \in 0 .. 2 * all - n /\ n + (k + 1) \in 1 .. 2 * all /\ (n + (k + 1)) - 1 = n + k
    BY <1>9
  <2>3. D[n + (k + 1)] = Decompressed(D[n + k], input, N)
    BY <1>10, <2>2
  <2>4. Decompressed(D[n], input, N) = D[n]
    BY <1>14 DEF Decompressed, N
  <2> QED BY <2>1, <2>2, <2>3, <2>4 DEF U
<1>17. D[2 * all] = D[n]
  <2>1. 2 * all - n \in Nat /\ 2 * all - n \in 0 .. 2 * all - n /\ n + (2 * all - n) = 2 * all
    BY <1>9
  <2>2. 2 * all - n \in U
    <3> HIDE DEF U
    <3> QED BY <1>15, <1>16, <2>1, UpTo
  <2> QED BY <2>1, <2>2
<1>18. lzss_decompress(input, N) = [ok |-> TRUE, out |-> data]
  BY <1>10, <1>14, <1>17 DEF N
<1> QED BY <1>5, <1>18 DEF N, input

(***************************************************************************)
(* Tiles and commands.                                                     *)
(***************************************************************************)
OneBit == [0 .. TilePixels - 1 -> {0, 1}]

\* The limits of the tiles are numbers; a tile has TileBytes bytes of bits.
LEMMA TileNumbers ==
  ASSUME TileAssumption
  PROVE  /\ TileW \in Nat /\ TileW > 0 /\ TileH \in Nat /\ TileH > 0 /\ TilesX \in Nat /\ TilesX > 0
         /\ TilesY \in Nat /\ TilesY > 0 /\ Octet \in Nat /\ Octet > 0 /\ Delta \in Nat /\ Delta > 0
         /\ RunMax \in Nat /\ RunMax > 0 /\ GapMax \in Nat /\ GapMax > 0
         /\ TilePixels \in Nat /\ TilePixels > 0 /\ TileCount \in Nat /\ TileCount > 0
         /\ TileBytes \in Nat /\ TileBytes > 0 /\ TilePixels = Octet * TileBytes
         /\ ByteValues \in Nat /\ ByteValues > 0
<1>1. /\ TileW \in Nat /\ TileW > 0 /\ TileH \in Nat /\ TileH > 0 /\ TilesX \in Nat /\ TilesX > 0
      /\ TilesY \in Nat /\ TilesY > 0 /\ Octet \in Nat /\ Octet > 0 /\ Delta \in Nat /\ Delta > 0
      /\ RunMax \in Nat /\ RunMax > 0 /\ GapMax \in Nat /\ GapMax > 0 /\ TileW % Octet = 0
  <2>1. /\ TileW \in Nat \ {0} /\ TileH \in Nat \ {0} /\ TilesX \in Nat \ {0} /\ TilesY \in Nat \ {0}
        /\ Octet \in Nat \ {0} /\ Delta \in Nat \ {0} /\ RunMax \in Nat \ {0} /\ GapMax \in Nat \ {0}
        /\ TileW % Octet = 0
    BY DEF TileAssumption
  <2>2. \A x \in Nat \ {0} : x \in Nat /\ x > 0
    OBVIOUS
  <2> QED BY <2>1, <2>2
<1>2. ASSUME NEW a \in Nat, NEW b \in Nat, a > 0, b > 0 PROVE a * b \in Nat /\ a * b > 0
  <2>1. a * b \in Nat /\ a <= a * b
    BY <1>2, ProductBelow
  <2> QED BY <1>2, <2>1
<1>3. TilePixels \in Nat /\ TilePixels > 0 /\ TileCount \in Nat /\ TileCount > 0
  BY <1>1, <1>2 DEF TilePixels, TileCount
<1>4. TileBytes \in Nat /\ TilePixels = Octet * TileBytes
  <2> DEFINE w == TileW \div Octet
  <2>1. w \in Nat /\ TileW = Octet * w
    <3>1. TileW \in Int /\ Octet \in Nat \ {0} /\ TileW >= 0
      BY <1>1
    <3>2. w \in Int /\ TileW = Octet * w + (TileW % Octet) /\ (TileW >= 0 => w \in Nat)
      BY <3>1, RemainderOf
    <3> QED BY <1>1, <3>1, <3>2
  <2> HIDE DEF w
  <2>2. w * TileH \in Nat /\ TilePixels = Octet * (w * TileH)
    BY <1>1, <2>1 DEF TilePixels
  <2> DEFINE k == w * TileH
             x == TilePixels
  <2>3. Octet \in Nat \ {0} /\ x \in Int /\ 0 \in 0 .. Octet - 1 /\ k \in Int /\ x = Octet * k + 0
    <3>1. k \in Int /\ x = Octet * k /\ x \in Int
      BY <1>3, <2>2
    <3> HIDE DEF k, x
    <3>2. x = Octet * k + 0
      BY ONLY <3>1
    <3> QED BY <1>1, <3>1, <3>2
  <2> HIDE DEF k, x
  <2>4. x \div Octet = k
    BY ONLY <2>3, QuotientIs
  <2> QED BY <2>2, <2>4 DEF TileBytes, k, x
<1>5. TileBytes > 0
  <2>1. TileBytes = 0 => Octet * TileBytes = 0
    BY <1>1
  <2> QED BY <1>3, <1>4, <2>1
<1>6. ByteValues \in Nat /\ ByteValues > 0
  BY <1>1, Pow2Is DEF ByteValues
<1> QED BY <1>1, <1>3, <1>4, <1>5, <1>6

\* A command says which tile comes next and how it is encoded, wherever the
\* last one was.
LEMMA CommandIs ==
  ASSUME TileAssumption, NEW data \in Seq(Nat), NEW pos \in Nat, NEW tile \in Nat, NEW mode \in Nat,
         NEW next \in Nat, next <= tile
  PROVE  LET c == emit_tile_command(tile, mode, next)
         IN /\ c \in Seq(Nat) /\ Len(c) \in Nat /\ Len(c) >= 1 /\ Len(c) <= 3
            /\ Holds(data, pos, c) =>
                 Command(data, pos, next) = [ok |-> TRUE, mode |-> mode, tile |-> tile, pos |-> pos + Len(c)]
<1> DEFINE c == emit_tile_command(tile, mode, next)
           d == tile - next
           near == mode * (Delta + 1) + d
           far == mode * (Delta + 1) + Delta
           low == tile % ByteValues
           high == tile \div ByteValues
<1>1. Delta \in Nat /\ d \in Nat /\ next + d = tile /\ tile >= next /\ mode * (Delta + 1) \in Nat
      /\ Delta + 1 \in Nat \ {0}
  BY TileNumbers
<1>2. low \in Nat /\ high \in Nat /\ tile = low + high * ByteValues
  <2>1. ByteValues \in Nat \ {0} /\ tile \in Int /\ tile >= 0
    BY TileNumbers
  <2>2. low \in 0 .. ByteValues - 1 /\ high \in Int /\ tile = ByteValues * high + low /\ (tile >= 0 => high \in Nat)
    BY <2>1, RemainderOf
  <2> HIDE DEF low, high
  <2>3. ByteValues * high = high * ByteValues /\ high * ByteValues \in Nat /\ low \in Nat /\ high \in Nat
    BY <2>1, <2>2
  <2> QED BY <2>2, <2>3
<1>3. ASSUME NEW x \in 0 .. Delta
      PROVE  /\ mode * (Delta + 1) + x \in Nat
             /\ (mode * (Delta + 1) + x) % (Delta + 1) = x /\ (mode * (Delta + 1) + x) \div (Delta + 1) = mode
  <2> DEFINE w == Delta + 1
             y == mode * w + x
  <2>1. w \in Nat \ {0} /\ y \in Int /\ y \in Nat /\ x \in 0 .. w - 1 /\ y = w * mode + x
    <3>1. mode * w = w * mode /\ mode * w \in Nat /\ x \in Nat
      BY <1>1
    <3> QED BY <1>1, <3>1
  <2> HIDE DEF w, y
  <2>2. mode \in Int
    OBVIOUS
  <2>3. y \div w = mode /\ y % w = x
    BY ONLY <2>1, <2>2, QuotientIs
  <2> QED BY <2>1, <2>3 DEF w, y
<1>4. CASE d < Delta
  <2>1. c = <<near>>
    BY <1>1, <1>4 DEF emit_tile_command
  <2>2. near \in Nat /\ near % (Delta + 1) = d /\ near \div (Delta + 1) = mode
    BY <1>1, <1>3, <1>4
  <2> HIDE DEF near, d, c
  <2>3. c \in Seq(Nat) /\ Len(c) >= 1 /\ Len(c) <= 1
    BY <2>1, <2>2
  <2>4. Holds(data, pos, c) => ByteAt(data, pos) = near
    BY <2>1, <2>2, HoldsFew
  <2>5. d # Delta
    BY <1>1, <1>4
  <2>6. pos + Len(c) = pos + 1
    BY <2>3
  <2>7. Holds(data, pos, c) =>
          Command(data, pos, next) = [ok |-> TRUE, mode |-> mode, tile |-> next + d, pos |-> pos + 1]
    BY <2>2, <2>4, <2>5 DEF Command
  <2> QED BY <1>1, <2>3, <2>6, <2>7 DEF c
<1>5. CASE ~(d < Delta)
  <2>1. c = <<far, low, high>>
    BY <1>1, <1>5 DEF emit_tile_command
  <2>2. far \in Nat /\ far % (Delta + 1) = Delta /\ far \div (Delta + 1) = mode
    BY <1>1, <1>3
  <2> HIDE DEF far, d, c, low, high
  <2>3. c \in Seq(Nat) /\ Len(c) >= 3 /\ Len(c) <= 3
    BY <1>2, <2>1, <2>2
  <2>4. Holds(data, pos, c) => /\ pos + 3 <= Len(data) /\ ByteAt(data, pos) = far /\ ByteAt(data, pos + 1) = low
                               /\ ByteAt(data, pos + 2) = high
    BY <1>2, <2>1, <2>2, HoldsFew
  <2>5. pos + Len(c) = pos + 3
    BY <2>3
  <2>6. Holds(data, pos, c) =>
          Command(data, pos, next) = [ok |-> TRUE, mode |-> mode, tile |-> low + high * ByteValues, pos |-> pos + 3]
    BY <2>2, <2>4 DEF Command
  <2> QED BY <1>2, <2>3, <2>5, <2>6 DEF c
<1> QED BY <1>4, <1>5

\* A table of numbers is a sequence of numbers.
LEMMA TableIs ==
  ASSUME NEW n \in Nat, NEW f \in [1 .. n -> Nat]
  PROVE  f \in Seq(Nat) /\ Len(f) = n /\ DOMAIN f = 1 .. n
OBVIOUS

\* The bits of the bytes of a tile are its pixels.
LEMMA PackedBits ==
  ASSUME TileAssumption, NEW tile \in OneBit
  PROVE  /\ Packed(tile) \in Seq(Nat) /\ Len(Packed(tile)) = TileBytes
         /\ \A i \in 0 .. TilePixels - 1 : get_bit(Packed(tile), i) = tile[i]
<1>1. /\ Octet \in Nat /\ Octet > 0 /\ TileBytes \in Nat /\ TileBytes > 0 /\ TilePixels = Octet * TileBytes
      /\ TilePixels \in Nat
  BY TileNumbers
<1>2. ASSUME NEW b \in 1 .. TileBytes, NEW k \in 0 .. Octet - 1
      PROVE  /\ (b - 1) * Octet + k \in 0 .. TilePixels - 1
             /\ tile[(b - 1) * Octet + k] \in {0, 1}
  <2>1. b - 1 \in Nat /\ TileBytes \in Nat /\ b - 1 < TileBytes
    BY <1>1
  <2>2. (b - 1) * Octet \in Nat /\ (b - 1) * Octet + Octet <= TileBytes * Octet
    BY <1>1, <2>1, ProductBelow
  <2>3. TileBytes * Octet = TilePixels
    BY <1>1
  <2>4. (b - 1) * Octet + k \in 0 .. TilePixels - 1
    <3> DEFINE x == (b - 1) * Octet
    <3>1. x \in Nat /\ x + Octet <= TilePixels
      BY <2>2, <2>3
    <3> HIDE DEF x
    <3>2. x + k \in 0 .. TilePixels - 1
      BY <1>1, <3>1
    <3> QED BY <3>2 DEF x
  <2> QED BY <2>4 DEF OneBit
<1>3. ASSUME NEW b \in 1 .. TileBytes
      PROVE  /\ Packed(tile)[b] \in Nat
             /\ \A k \in 0 .. Octet - 1 :
                  (Packed(tile)[b] \div Pow2[Octet - 1 - k]) % 2 = tile[(b - 1) * Octet + k]
  <2>1. PICK Z : /\ Packed(tile)[b] = Z[Octet] /\ Z[0] = 0
                 /\ \A i \in 1 .. Octet : Z[i] = 2 * Z[i - 1] + tile[(b - 1) * Octet + i - 1]
    BY <1>1, PackedIs
  <2> DEFINE bit(k) == tile[(b - 1) * Octet + k]
  <2>2. ASSUME NEW k \in 0 .. Octet - 1 PROVE Z[k + 1] = 2 * Z[k] + bit(k) /\ bit(k) \in {0, 1}
    <3>1. k + 1 \in 1 .. Octet /\ (k + 1) - 1 = k
      BY <1>1
    <3>2. (b - 1) * Octet + (k + 1) - 1 = (b - 1) * Octet + k
      <4> DEFINE x == (b - 1) * Octet
      <4>1. x \in Int
        BY <1>1
      <4> HIDE DEF x
      <4>2. x + (k + 1) - 1 = x + k
        BY <4>1
      <4> QED BY <4>2 DEF x
    <3>3. Z[k + 1] = 2 * Z[(k + 1) - 1] + tile[(b - 1) * Octet + (k + 1) - 1]
      BY <2>1, <3>1
    <3> QED BY <1>2, <3>1, <3>2, <3>3
  <2> HIDE DEF bit
  <2>3. ASSUME NEW i \in 0 .. Octet PROVE Z[i] \in Nat
    <3> DEFINE S == {j \in 0 .. Octet : Z[j] \in Nat}
    <3>1. 0 \in S
      BY <1>1, <2>1
    <3>2. Steps(S, Octet)
      <4> SUFFICES ASSUME NEW j \in 0 .. Octet - 1, j \in S PROVE j + 1 \in S
        BY DEF Steps
      <4>1. j + 1 \in 0 .. Octet /\ Z[j] \in Nat
        BY <1>1
      <4>2. Z[j + 1] \in Nat
        BY <2>2, <4>1
      <4> QED BY <4>1, <4>2
    <3> HIDE DEF S
    <3>3. i \in S
      BY <1>1, <3>1, <3>2, UpTo
    <3> QED BY <3>3 DEF S
  <2>4. ASSUME NEW k \in 0 .. Octet - 1
        PROVE  (Z[Octet] \div Pow2[Octet - 1 - k]) % 2 = bit(k)
    <3> DEFINE last == Octet - 1 - k
               S == {j \in 0 .. last : \E r \in 0 .. Pow2[j] - 1 : Z[k + 1 + j] = Pow2[j] * Z[k + 1] + r}
    <3>1. last \in Nat /\ k + 1 \in 0 .. Octet /\ Z[k + 1] \in Nat /\ k \in 0 .. Octet /\ Z[k] \in Nat
      BY <1>1, <2>3
    <3>2. 0 \in S
      <4>1. Pow2[0] = 1 /\ k + 1 + 0 = k + 1 /\ Z[k + 1] = 1 * Z[k + 1] + 0 /\ 0 \in 0 .. 1 - 1
        BY <3>1, Pow2Is
      <4> QED BY <3>1, <4>1
    <3>3. Steps(S, last)
      <4> SUFFICES ASSUME NEW j \in 0 .. last - 1, j \in S PROVE j + 1 \in S
        BY DEF Steps
      <4>1. PICK r \in 0 .. Pow2[j] - 1 : Z[k + 1 + j] = Pow2[j] * Z[k + 1] + r
        OBVIOUS
      <4> HIDE DEF S
      <4>2. j \in Nat /\ j + 1 \in 0 .. last /\ k + 1 + j \in 0 .. Octet - 1 /\ (k + 1 + j) + 1 = k + 1 + (j + 1)
        BY <1>1, <3>1
      <4>3. Pow2[j] \in Nat /\ Pow2[j] > 0 /\ Pow2[j + 1] = 2 * Pow2[j]
        BY <4>2, Pow2Is
      <4>4. Z[k + 1 + (j + 1)] = 2 * Z[k + 1 + j] + bit(k + 1 + j) /\ bit(k + 1 + j) \in {0, 1}
        BY <2>2, <4>2
      <4> DEFINE p == Pow2[j]
                 z == Z[k + 1]
                 s == bit(k + 1 + j)
      <4>5. p \in Nat /\ z \in Nat /\ r \in 0 .. p - 1 /\ s \in {0, 1}
        BY <3>1, <4>3, <4>4
      <4> HIDE DEF p, z, s
      <4>6. 2 * (p * z + r) + s = (2 * p) * z + (2 * r + s) /\ 2 * r + s \in 0 .. 2 * p - 1
        BY <4>5
      <4>7. Z[k + 1 + (j + 1)] = 2 * (p * z + r) + s
        BY <4>1, <4>4 DEF p, z, s
      <4>8. Z[k + 1 + (j + 1)] = Pow2[j + 1] * Z[k + 1] + (2 * r + s) /\ 2 * r + s \in 0 .. Pow2[j + 1] - 1
        BY <4>3, <4>6, <4>7 DEF p, z
      <4> QED BY <4>2, <4>8 DEF S
    <3>4. last \in S
      <4>1. last \in 0 .. last
        BY <3>1
      <4> HIDE DEF S, last
      <4> QED BY <3>1, <3>2, <3>3, <4>1, UpTo
    <3>5. PICK r \in 0 .. Pow2[last] - 1 : Z[k + 1 + last] = Pow2[last] * Z[k + 1] + r
      BY <3>4
    <3>6. k + 1 + last = Octet
      BY <1>1
    <3>7. Pow2[last] \in Nat \ {0} /\ Z[Octet] \in Int /\ Z[k + 1] \in Int
      <4>1. Pow2[last] \in Nat /\ Pow2[last] > 0
        BY <3>1, Pow2Is
      <4>2. Octet \in 0 .. Octet
        BY <1>1
      <4> QED BY <2>3, <3>1, <4>1, <4>2
    <3> HIDE DEF last
    <3>8. Z[Octet] \div Pow2[last] = Z[k + 1]
      BY <3>5, <3>6, <3>7, QuotientIs
    <3>9. Z[k + 1] % 2 = bit(k)
      <4>1. Z[k + 1] = 2 * Z[k] + bit(k) /\ bit(k) \in {0, 1}
        BY <2>2
      <4> QED BY <3>1, <4>1
    <3> QED BY <3>8, <3>9 DEF last
  <2>5. Octet \in 0 .. Octet
    BY <1>1
  <2> QED BY <2>1, <2>3, <2>4, <2>5 DEF bit
<1>4. Packed(tile) \in Seq(Nat) /\ Len(Packed(tile)) = TileBytes
  <2>1. DOMAIN Packed(tile) = 1 .. TileBytes /\ Packed(tile) = [b \in 1 .. TileBytes |-> Packed(tile)[b]]
    BY DEF Packed
  <2>2. \A b \in 1 .. TileBytes : Packed(tile)[b] \in Nat
    BY <1>3
  <2> DEFINE p == Packed(tile)
  <2> HIDE DEF p
  <2>3. p = [b \in 1 .. TileBytes |-> p[b]] /\ \A b \in 1 .. TileBytes : p[b] \in Nat
    BY <2>1, <2>2 DEF p
  <2>4. p \in [1 .. TileBytes -> Nat]
    BY ONLY <2>3, Zenon
  <2>5. p \in Seq(Nat) /\ Len(p) = TileBytes
    BY <1>1, <2>4, TableIs
  <2> QED BY <2>5 DEF p
<1>5. ASSUME NEW i \in 0 .. TilePixels - 1 PROVE get_bit(Packed(tile), i) = tile[i]
  <2> DEFINE q == i \div Octet
             k == i % Octet
  <2>1. q \in Nat /\ k \in 0 .. Octet - 1 /\ i = Octet * q + k
    <3>1. i \in Int /\ i >= 0 /\ Octet \in Nat \ {0}
      BY <1>1
    <3>2. k \in 0 .. Octet - 1 /\ q \in Int /\ i = Octet * q + k /\ (i >= 0 => q \in Nat)
      BY <3>1, RemainderOf
    <3> QED BY <3>1, <3>2
  <2>2. get_bit(Packed(tile), i) = (Packed(tile)[q + 1] \div Pow2[Octet - 1 - k]) % 2
    BY DEF get_bit
  <2> HIDE DEF q, k
  <2>3. q < TileBytes
    <3>1. q * Octet < TileBytes * Octet
      <4>1. q * Octet = Octet * q /\ TileBytes * Octet = TilePixels /\ Octet * q \in Nat
        BY <1>1, <2>1
      <4> QED BY <1>1, <2>1, <4>1
    <3> QED BY <1>1, <2>1, <3>1, ProductBelow
  <2>4. q + 1 \in 1 .. TileBytes /\ ((q + 1) - 1) * Octet + k = i
    <3>1. (q + 1) - 1 = q /\ q * Octet = Octet * q
      BY <1>1, <2>1
    <3> QED BY <1>1, <2>1, <2>3, <3>1
  <2>5. (Packed(tile)[q + 1] \div Pow2[Octet - 1 - k]) % 2 = tile[((q + 1) - 1) * Octet + k]
    BY <1>3, <2>1, <2>4
  <2> QED BY <2>2, <2>4, <2>5
<1> QED BY <1>4, <1>5

\* To have bytes and one more is to have those bytes, and then that one.
LEMMA HoldsOneMore ==
  ASSUME NEW data \in Seq(Nat), NEW pos \in Nat, NEW a \in Seq(Nat), NEW x \in Nat,
         Holds(data, pos, Append(a, x))
  PROVE  /\ Holds(data, pos, a) /\ ByteAt(data, pos + Len(a)) = x
         /\ Append(a, x) \in Seq(Nat) /\ Len(Append(a, x)) = Len(a) + 1
<1> DEFINE b == Append(a, x)
           n == Len(a)
<1>1. b \in Seq(Nat) /\ n \in Nat /\ Len(b) = n + 1 /\ b[n + 1] = x /\ \A i \in 1 .. n : b[i] = a[i]
  OBVIOUS
<1>2. pos + Len(b) <= Len(data) /\ \A i \in 1 .. Len(b) : data[pos + i] = b[i]
  BY DEF Holds
<1> HIDE DEF b, n
<1>3. pos + n <= Len(data) /\ \A i \in 1 .. n : data[pos + i] = a[i]
  <2>1. \A i \in 1 .. n : i \in 1 .. n + 1
    BY <1>1
  <2>2. Len(data) \in Nat
    OBVIOUS
  <2>3. pos + n <= Len(data)
    BY <1>1, <1>2, <2>2
  <2> QED BY <1>1, <1>2, <2>1, <2>3
<1>4. data[(pos + n) + 1] = x
  <2>1. n + 1 \in 1 .. n + 1 /\ pos + (n + 1) = (pos + n) + 1
    BY <1>1
  <2> QED BY <1>1, <1>2, <2>1
<1> QED BY <1>1, <1>3, <1>4 DEF Holds, ByteAt, b, n

\* A run has at least a pixel, fits the token and the tile, and its pixels are
\* all alike.
LEMMA RunLengthIs ==
  ASSUME TileAssumption, NEW tile, NEW pos \in 0 .. TilePixels - 1
  PROVE  /\ RunLength(tile, pos) \in 1 .. RunMax /\ pos + RunLength(tile, pos) <= TilePixels
         /\ \A i \in 0 .. RunLength(tile, pos) - 1 : tile[pos + i] = tile[pos]
<1> DEFINE b == Min({RunMax, TilePixels - pos})
           S == {n \in 1 .. b : \A i \in 0 .. n - 1 : tile[pos + i] = tile[pos]}
<1>1. RunMax \in Nat /\ RunMax > 0 /\ TilePixels \in Nat /\ TilePixels - pos \in Nat /\ TilePixels - pos > 0
  BY TileNumbers
<1>2. b \in Nat /\ b > 0 /\ b <= RunMax /\ b <= TilePixels - pos
  <2> DEFINE c == TilePixels - pos
  <2>1. c \in Nat /\ c > 0
    BY <1>1
  <2> HIDE DEF c
  <2>2. Min({RunMax, c}) = IF RunMax <= c THEN RunMax ELSE c
    BY <1>1, <2>1, MinOfTwo
  <2>3. b = IF RunMax <= c THEN RunMax ELSE c
    BY <2>2 DEF c
  <2> HIDE DEF b
  <2> QED BY <1>1, <2>1, <2>3 DEF c
<1> HIDE DEF b
<1>3. S \in SUBSET (0 .. b) /\ 1 \in S
  <2>1. 1 \in 1 .. b /\ \A i \in 0 .. 1 - 1 : i = 0 /\ pos + i = pos
    BY <1>2
  <2>2. \A n \in 1 .. b : n \in 0 .. b
    BY <1>2
  <2> QED BY <2>1, <2>2
<1>4. Max(S) \in S
  <2> HIDE DEF S
  <2>1. S # {}
    BY <1>3
  <2> QED BY <1>2, <1>3, <2>1, MaxIs
<1>5. RunLength(tile, pos) = Max(S)
  BY DEF RunLength, S, b
<1>6. RunLength(tile, pos) \in 1 .. b /\ \A i \in 0 .. RunLength(tile, pos) - 1 : tile[pos + i] = tile[pos]
  BY <1>4, <1>5
<1> QED BY <1>1, <1>2, <1>6

\* A token gives back its run and its bit.
LEMMA TokenIs ==
  ASSUME TileAssumption, NEW run \in 0 .. RunMax, NEW bit \in Nat
  PROVE  /\ Token(run, bit) \in Nat /\ Token(run, bit) % (RunMax + 1) = run
         /\ Token(run, bit) \div (RunMax + 1) = bit
<1> DEFINE w == RunMax + 1
           x == run + bit * w
<1>1. w \in Nat \ {0} /\ run \in 0 .. w - 1 /\ w \in Nat
  BY TileNumbers
<1> HIDE DEF w
<1>2. bit * w \in Nat /\ bit * w = w * bit /\ run \in Nat
  BY <1>1
<1>3. x \in Nat /\ x \in Int /\ x = w * bit + run /\ bit \in Int
  BY <1>2
<1> HIDE DEF x
<1>4. x \div w = bit /\ x % w = run
  BY ONLY <1>1, <1>3, QuotientIs
<1> QED BY <1>3, <1>4 DEF Token, w, x

\* A tile of which the pixels before pos are those of one, the others of another.
Partly(tile, from, pos) == [i \in 0 .. TilePixels - 1 |-> IF i < pos THEN tile[i] ELSE from[i]]

\* A token puts its run in place: set_tile_rle is one run further.
LEMMA RunIs ==
  ASSUME TileAssumption, NEW tile \in OneBit, NEW from \in OneBit, NEW pos \in 0 .. TilePixels - 1
  PROVE  LET run == RunLength(tile, pos)
         IN RunTaken(Decoded(Partly(tile, from, pos), pos), Token(run, tile[pos]), from)
              = Decoded(Partly(tile, from, pos + run), pos + run)
<1> DEFINE run == RunLength(tile, pos)
           bit == tile[pos]
<1>1. /\ run \in 1 .. RunMax /\ pos + run <= TilePixels
      /\ \A i \in 0 .. run - 1 : tile[pos + i] = bit
  BY RunLengthIs
<1>2. bit \in Nat /\ bit \in {0, 1}
  BY DEF OneBit
<1> HIDE DEF run, bit
<1>3. TilePixels \in Nat /\ RunMax \in Nat
  BY TileNumbers
<1>4. Token(run, bit) % (RunMax + 1) = run /\ Token(run, bit) \div (RunMax + 1) = bit
  <2>1. run \in 0 .. RunMax
    BY <1>1, <1>3
  <2> QED BY <1>2, <2>1, TokenIs
<1>5. Min({pos + run, TilePixels}) = pos + run
  <2>1. pos + run \in Nat
    BY <1>1
  <2> QED BY <1>1, <1>3, <2>1, MinOfTwo
<1>6. DOMAIN from = 0 .. TilePixels - 1
  BY DEF OneBit
<1>7. ASSUME NEW i \in 0 .. TilePixels - 1
      PROVE  (IF i \in pos .. pos + run - 1 THEN bit ELSE Partly(tile, from, pos)[i]) = Partly(tile, from, pos + run)[i]
  <2>1. Partly(tile, from, pos)[i] = (IF i < pos THEN tile[i] ELSE from[i])
        /\ Partly(tile, from, pos + run)[i] = (IF i < pos + run THEN tile[i] ELSE from[i])
    BY DEF Partly
  <2>2. CASE i < pos
    <3>1. i \notin pos .. pos + run - 1 /\ i < pos + run
      BY <1>1, <2>2
    <3> QED BY <2>1, <2>2, <3>1
  <2>3. CASE i >= pos /\ i < pos + run
    <3>1. i - pos \in 0 .. run - 1 /\ pos + (i - pos) = i /\ i \in pos .. pos + run - 1
      BY <1>1, <2>3
    <3>2. tile[i] = bit
      BY <1>1, <3>1
    <3> QED BY <2>1, <2>3, <3>1, <3>2
  <2>4. CASE i >= pos + run
    <3>1. i \notin pos .. pos + run - 1 /\ ~(i < pos) /\ ~(i < pos + run)
      BY <1>1, <2>4
    <3> QED BY <2>1, <3>1
  <2> QED BY <1>1, <2>2, <2>3, <2>4
<1>8. [i \in DOMAIN from |-> IF i \in pos .. pos + run - 1 THEN bit ELSE Partly(tile, from, pos)[i]]
        = Partly(tile, from, pos + run)
  BY <1>6, <1>7 DEF Partly
<1>9. Decoded(Partly(tile, from, pos), pos).pos = pos /\ Decoded(Partly(tile, from, pos), pos).tile = Partly(tile, from, pos)
  BY DEF Decoded
<1> QED BY <1>4, <1>5, <1>8, <1>9 DEF RunTaken, run, bit

\* The runs of a tile give the tile back, over whatever tile they are drawn.
LEMMA RunsBack ==
  ASSUME TileAssumption, NEW tile \in OneBit
  PROVE  /\ encode_tile_rle(tile) \in Seq(Nat)
         /\ \A data \in Seq(Nat), first \in Nat, from \in OneBit :
              Holds(data, first, encode_tile_rle(tile)) =>
                Runs(data, first, Len(encode_tile_rle(tile)), from) = tile
<1>1. TilePixels \in Nat /\ TilePixels > 0
  BY TileNumbers
<1>2. PICK Z : /\ encode_tile_rle(tile) = Z[TilePixels].out
               /\ Z[0] = [pos |-> 0, out |-> <<>>]
               /\ \A i \in 1 .. TilePixels :
                    Z[i] = IF Z[i - 1].pos = TilePixels THEN Z[i - 1]
                           ELSE [pos |-> Z[i - 1].pos + RunLength(tile, Z[i - 1].pos),
                                 out |-> Append(Z[i - 1].out, Token(RunLength(tile, Z[i - 1].pos), tile[Z[i - 1].pos]))]
  BY <1>1, RunsWritten
<1>3. ASSUME NEW k \in 0 .. TilePixels - 1
      PROVE  Z[k + 1] = IF Z[k].pos = TilePixels THEN Z[k]
                        ELSE [pos |-> Z[k].pos + RunLength(tile, Z[k].pos),
                              out |-> Append(Z[k].out, Token(RunLength(tile, Z[k].pos), tile[Z[k].pos]))]
  <2>1. k + 1 \in 1 .. TilePixels /\ (k + 1) - 1 = k
    BY <1>1
  <2> QED BY <1>2, <2>1
<1>4. ASSUME NEW k \in 0 .. TilePixels
      PROVE  Z[k].out \in Seq(Nat) /\ Z[k].pos \in 0 .. TilePixels /\ Z[k].pos >= k
  <2> DEFINE S == {j \in 0 .. TilePixels : Z[j].out \in Seq(Nat) /\ Z[j].pos \in 0 .. TilePixels /\ Z[j].pos >= j}
  <2>1. 0 \in S
    <3>1. Z[0].pos = 0 /\ Z[0].out = <<>> /\ <<>> \in Seq(Nat)
      BY <1>2
    <3>2. 0 \in 0 .. TilePixels /\ 0 >= 0
      BY <1>1
    <3>3. Z[0].out \in Seq(Nat) /\ Z[0].pos \in 0 .. TilePixels /\ Z[0].pos >= 0
      BY <3>1, <3>2, Zenon
    <3> QED BY <3>2, <3>3, Zenon
  <2>2. Steps(S, TilePixels)
    <3> SUFFICES ASSUME NEW j \in 0 .. TilePixels - 1, j \in S PROVE j + 1 \in S
      BY DEF Steps
    <3>1. Z[j].out \in Seq(Nat) /\ Z[j].pos \in 0 .. TilePixels /\ Z[j].pos >= j
      OBVIOUS
    <3> HIDE DEF S
    <3>2. j + 1 \in 0 .. TilePixels
      BY <1>1
    <3>3. CASE Z[j].pos = TilePixels
      <4>1. Z[j + 1] = Z[j]
        BY <1>3, <3>3
      <4>2. Z[j + 1].pos >= j + 1
        BY <1>1, <3>1, <3>3, <4>1
      <4> QED BY <3>1, <3>2, <4>1, <4>2 DEF S
    <3>4. CASE Z[j].pos # TilePixels
      <4> DEFINE q == Z[j].pos
                 run == RunLength(tile, q)
                 tok == Token(run, tile[q])
      <4>1. q \in 0 .. TilePixels - 1 /\ q >= j
        BY <1>1, <3>1, <3>4
      <4>2. run \in 1 .. RunMax /\ q + run <= TilePixels
        BY <4>1, RunLengthIs
      <4>3. tok \in Nat
        <5>1. tile[q] \in Nat
          BY <4>1 DEF OneBit
        <5> HIDE DEF q, run
        <5>2. run \in 0 .. RunMax
          BY <4>2, TileNumbers
        <5> QED BY <5>1, <5>2, TokenIs
      <4>4. Z[j + 1].pos = q + run /\ Z[j + 1].out = Append(Z[j].out, tok)
        <5>1. Z[j + 1] = [pos |-> q + run, out |-> Append(Z[j].out, tok)]
          BY <1>3, <3>4
        <5> HIDE DEF q, run, tok
        <5> QED BY <5>1
      <4> HIDE DEF q, run, tok
      <4>5. Z[j + 1].out \in Seq(Nat)
        BY <3>1, <4>3, <4>4
      <4>6. q + run \in 0 .. TilePixels /\ q + run >= j + 1
        BY <1>1, <4>1, <4>2
      <4> QED BY <3>2, <4>4, <4>5, <4>6 DEF S
    <3> QED BY <3>3, <3>4
  <2> HIDE DEF S
  <2>3. k \in S
    BY <1>1, <2>1, <2>2, UpTo
  <2> QED BY <2>3 DEF S
<1>5. TilePixels \in 0 .. TilePixels
  BY <1>1
<1>6. encode_tile_rle(tile) \in Seq(Nat)
  BY <1>2, <1>4, <1>5
<1>7. ASSUME NEW data \in Seq(Nat), NEW first \in Nat, NEW from \in OneBit,
             Holds(data, first, encode_tile_rle(tile))
      PROVE  Runs(data, first, Len(encode_tile_rle(tile)), from) = tile
  <2> DEFINE n == Len(encode_tile_rle(tile))
  <2>1. n \in Nat
    BY <1>6
  <2>2. PICK Y : /\ Runs(data, first, n, from) = Y[n].tile
                 /\ Y[0] = Decoded(from, 0)
                 /\ \A i \in 1 .. n : Y[i] = RunTaken(Y[i - 1], ByteAt(data, first + i - 1), from)
    BY <2>1, RunsIs
  <2> HIDE DEF n
  <2> DEFINE Good(k) == Holds(data, first, Z[k].out) /\ Len(Z[k].out) <= n =>
                          Y[Len(Z[k].out)] = Decoded(Partly(tile, from, Z[k].pos), Z[k].pos)
             S == {j \in 0 .. TilePixels : Good(j)}
  <2>3. 0 \in S
    <3>1. Partly(tile, from, 0) = from
      <4>1. \A i \in 0 .. TilePixels - 1 : ~(i < 0)
        BY <1>1
      <4>2. from = [i \in 0 .. TilePixels - 1 |-> from[i]]
        BY DEF OneBit
      <4> QED BY <4>1, <4>2 DEF Partly
    <3>2. Z[0].pos = 0 /\ Z[0].out = <<>> /\ Len(Z[0].out) = 0
      BY <1>2
    <3>3. Good(0)
      BY <2>2, <3>1, <3>2
    <3> QED BY <1>1, <3>3
  <2>4. Steps(S, TilePixels)
    <3> SUFFICES ASSUME NEW j \in 0 .. TilePixels - 1, j \in S PROVE j + 1 \in S
      BY DEF Steps
    <3>1. Good(j)
      OBVIOUS
    <3> HIDE DEF S
    <3>2. j + 1 \in 0 .. TilePixels /\ j \in 0 .. TilePixels
      BY <1>1
    <3>3. CASE Z[j].pos = TilePixels
      <4>1. Z[j + 1] = Z[j]
        BY <1>3, <3>3
      <4>2. Good(j + 1)
        BY <3>1, <4>1
      <4> QED BY <3>2, <4>2 DEF S
    <3>4. CASE Z[j].pos # TilePixels
      <4> DEFINE q == Z[j].pos
                 run == RunLength(tile, q)
                 tok == Token(run, tile[q])
                 out == Z[j].out
                 l == Len(out)
      <4>1. q \in 0 .. TilePixels - 1 /\ out \in Seq(Nat) /\ l \in Nat
        BY <1>1, <1>4, <3>2, <3>4
      <4>2. tok \in Nat
        <5>1. tile[q] \in Nat
          BY <4>1 DEF OneBit
        <5>2. run \in 1 .. RunMax
          BY <4>1, RunLengthIs
        <5> HIDE DEF q, run
        <5>3. run \in 0 .. RunMax
          BY <5>2, TileNumbers
        <5> QED BY <5>1, <5>3, TokenIs
      <4>3. Z[j + 1].pos = q + run /\ Z[j + 1].out = Append(out, tok)
        <5>1. Z[j + 1] = [pos |-> q + run, out |-> Append(out, tok)]
          BY <1>3, <3>4
        <5> HIDE DEF q, run, tok, out
        <5> QED BY <5>1
      <4>4. RunTaken(Decoded(Partly(tile, from, q), q), tok, from) = Decoded(Partly(tile, from, q + run), q + run)
        BY <4>1, RunIs
      <4> HIDE DEF Good
      <4>5. SUFFICES ASSUME Holds(data, first, Z[j + 1].out), Len(Z[j + 1].out) <= n
                     PROVE  Y[Len(Z[j + 1].out)] = Decoded(Partly(tile, from, Z[j + 1].pos), Z[j + 1].pos)
        BY <3>2 DEF S, Good
      <4>6. Holds(data, first, out) /\ ByteAt(data, first + l) = tok /\ Len(Z[j + 1].out) = l + 1
        <5>1. Holds(data, first, Append(out, tok)) /\ out \in Seq(Nat) /\ tok \in Nat
          BY <4>1, <4>2, <4>3, <4>5
        <5> HIDE DEF tok, out, q, run
        <5>2. Holds(data, first, out) /\ ByteAt(data, first + Len(out)) = tok /\ Len(Append(out, tok)) = Len(out) + 1
          BY <5>1, HoldsOneMore
        <5> QED BY <4>3, <5>2 DEF l
      <4>7. Y[l] = Decoded(Partly(tile, from, q), q)
        <5>1. l <= n
          BY <2>1, <4>1, <4>5, <4>6
        <5> QED BY <3>1, <4>6, <5>1 DEF Good
      <4>8. Y[l + 1] = RunTaken(Y[l], ByteAt(data, first + l), from)
        <5>1. l + 1 \in 1 .. n /\ (l + 1) - 1 = l /\ first + (l + 1) - 1 = first + l
          BY <2>1, <4>1, <4>5, <4>6
        <5> HIDE DEF l
        <5> QED BY <2>2, <5>1
      <4> QED BY <4>3, <4>4, <4>6, <4>7, <4>8
    <3> QED BY <3>3, <3>4
  <2> HIDE DEF S
  <2>5. TilePixels \in S
    BY <1>1, <1>5, <2>3, <2>4, UpTo
  <2>6. Z[TilePixels].out = encode_tile_rle(tile) /\ Len(Z[TilePixels].out) = n /\ Z[TilePixels].pos = TilePixels
    <3>1. Z[TilePixels].pos = TilePixels
      BY <1>1, <1>4, <1>5
    <3> QED BY <1>2, <3>1 DEF n
  <2>7. n <= n
    BY <2>1 DEF n
  <2>8. Y[n] = Decoded(Partly(tile, from, TilePixels), TilePixels)
    BY <1>7, <2>5, <2>6, <2>7 DEF S
  <2>9. Partly(tile, from, TilePixels) = tile
    <3>1. \A i \in 0 .. TilePixels - 1 : i < TilePixels
      BY <1>1
    <3>2. tile = [i \in 0 .. TilePixels - 1 |-> tile[i]]
      BY DEF OneBit
    <3> QED BY <3>1, <3>2 DEF Partly
  <2> QED BY <2>2, <2>8, <2>9 DEF Decoded, n
<1> QED BY <1>6, <1>7

\* A difference to a tile, applied to that tile, gives the other one.
LEMMA XorBack ==
  ASSUME NEW tile \in OneBit, NEW old \in OneBit
  PROVE  Xor(tile, old) \in OneBit /\ Xor(old, Xor(tile, old)) = tile
<1> DEFINE c == Xor(tile, old)
<1>1. DOMAIN tile = 0 .. TilePixels - 1 /\ DOMAIN old = 0 .. TilePixels - 1
      /\ tile = [i \in 0 .. TilePixels - 1 |-> tile[i]]
  BY DEF OneBit
<1>2. c = [i \in 0 .. TilePixels - 1 |-> (tile[i] + old[i]) % 2]
  BY <1>1 DEF Xor
<1>3. ASSUME NEW i \in 0 .. TilePixels - 1
      PROVE  c[i] \in {0, 1} /\ c[i] = (tile[i] + old[i]) % 2 /\ (old[i] + c[i]) % 2 = tile[i]
  <2>1. tile[i] \in {0, 1} /\ old[i] \in {0, 1}
    BY DEF OneBit
  <2>2. c[i] = (tile[i] + old[i]) % 2
    BY <1>2
  <2> HIDE DEF c
  <2>3. ASSUME NEW x \in {0, 1}, NEW y \in {0, 1}
        PROVE  (x + y) % 2 \in {0, 1} /\ (y + ((x + y) % 2)) % 2 = x
    OBVIOUS
  <2> QED BY <2>1, <2>2, <2>3
<1> HIDE DEF c
<1>4. c \in OneBit
  BY <1>2, <1>3 DEF OneBit
<1>5. Xor(old, c) = [i \in 0 .. TilePixels - 1 |-> (old[i] + c[i]) % 2]
  BY <1>1 DEF Xor
<1>6. Xor(old, c) = tile
  BY <1>1, <1>3, <1>5
<1> QED BY <1>4, <1>6 DEF c

\* What starts with a byte.
LEMMA HoldsHead ==
  ASSUME NEW data \in Seq(Nat), NEW pos \in Nat, NEW n \in Nat, NEW a \in Seq(Nat), Holds(data, pos, <<n>> \o a)
  PROVE  /\ pos < Len(data) /\ ByteAt(data, pos) = n /\ Holds(data, pos + 1, a)
         /\ pos + 1 + Len(a) <= Len(data) /\ Len(<<n>> \o a) = 1 + Len(a)
<1> DEFINE one == <<n>>
<1>1. one \in Seq(Nat) /\ Len(one) <= 1 /\ Len(one) >= 1
  OBVIOUS
<1>2. Holds(data, pos, one) => pos + 1 <= Len(data) /\ ByteAt(data, pos) = n
  BY HoldsFew
<1> HIDE DEF one
<1>3. Holds(data, pos, one) /\ Holds(data, pos + Len(one), a)
  <2>1. Holds(data, pos, one \o a)
    BY DEF one
  <2> QED BY <1>1, <2>1, HoldsBoth
<1>4. Len(one) \in Nat /\ pos + Len(one) = pos + 1 /\ Len(one \o a) = 1 + Len(a)
  BY <1>1
<1>5. Holds(data, pos + 1, a) /\ pos + 1 <= Len(data) /\ Len(data) \in Nat
  BY <1>2, <1>3, <1>4
<1>6. pos + 1 + Len(a) <= Len(data)
  BY <1>5 DEF Holds
<1> QED BY <1>2, <1>3, <1>4, <1>5, <1>6 DEF one

\* The count of tokens is not cut short by the end of the data.
LEMMA RunCountIs ==
  ASSUME NEW data \in Seq(Nat), NEW pos \in Nat, NEW n \in Nat, pos + 1 + n <= Len(data), ByteAt(data, pos) = n
  PROVE  RunCount(data, pos) = n
<1> DEFINE l == Len(data) - pos - 1
<1>1. l \in Nat /\ n <= l
  OBVIOUS
<1>2. RunCount(data, pos) = Min({n, l})
  BY DEF RunCount
<1> HIDE DEF l
<1> QED BY <1>1, <1>2, MinOfTwo

\* The runs of a tile are the tile again, in set_tile_rle and as a difference
\* in xor_tile_rle.
LEMMA RleBack ==
  ASSUME TileAssumption, NEW tile \in OneBit, NEW data \in Seq(Nat), NEW pos \in Nat,
         Holds(data, pos, <<Len(encode_tile_rle(tile))>> \o encode_tile_rle(tile))
  PROVE  LET end == pos + Len(<<Len(encode_tile_rle(tile))>> \o encode_tile_rle(tile))
         IN /\ \A from \in OneBit : set_tile_rle(from, data, pos) = Decoded(tile, end)
            /\ \A from \in OneBit : xor_tile_rle(from, data, pos) = Decoded(Xor(from, tile), end)
<1> DEFINE rle == encode_tile_rle(tile)
           n == Len(rle)
<1>1. rle \in Seq(Nat) /\ n \in Nat
  BY RunsBack
<1>2. ASSUME NEW from \in OneBit, Holds(data, pos + 1, rle) PROVE Runs(data, pos + 1, n, from) = tile
  <2>1. pos + 1 \in Nat
    OBVIOUS
  <2> QED BY <1>2, <2>1, RunsBack
<1>3. Holds(data, pos, <<n>> \o rle)
  OBVIOUS
<1> HIDE DEF rle, n
<1>4. pos < Len(data) /\ ByteAt(data, pos) = n /\ Holds(data, pos + 1, rle) /\ pos + 1 + Len(rle) <= Len(data)
      /\ Len(<<n>> \o rle) = 1 + Len(rle)
  BY <1>1, <1>3, HoldsHead
<1>5. RunCount(data, pos) = n
  BY <1>1, <1>4, RunCountIs DEF n
<1>6. ~(pos >= Len(data)) /\ pos + 1 + n = pos + Len(<<n>> \o rle)
  <2>1. Len(data) \in Nat
    OBVIOUS
  <2> QED BY <1>1, <1>4, <2>1 DEF n
<1>7. BlackTile \in OneBit
  BY DEF BlackTile, OneBit
<1>8. ASSUME NEW from \in OneBit
      PROVE  /\ set_tile_rle(from, data, pos) = Decoded(tile, pos + Len(<<n>> \o rle))
             /\ xor_tile_rle(from, data, pos) = Decoded(Xor(from, tile), pos + Len(<<n>> \o rle))
  BY <1>2, <1>4, <1>5, <1>6, <1>7 DEF set_tile_rle, xor_tile_rle
<1> QED BY <1>8 DEF rle, n

\* A part of a sequence that holds other bytes is those.
LEMMA PartIs ==
  ASSUME NEW data \in Seq(Nat), NEW pos \in Nat, NEW a \in Seq(Nat), Holds(data, pos, a), NEW to, to = pos + Len(a)
  PROVE  SubSeq(data, pos + 1, to) = a
<1> DEFINE n == Len(a)
           b == SubSeq(data, pos + 1, pos + n)
<1>1. n \in Nat /\ pos + n <= Len(data) /\ Len(data) \in Nat /\ \A i \in 1 .. n : data[pos + i] = a[i]
  BY DEF Holds
<1>2. b \in Seq(Nat) /\ Len(b) = n /\ \A i \in 1 .. n : b[i] = data[pos + i]
  <2> HIDE DEF n
  <2>1. \A i \in pos + 1 .. pos + n : i \in 1 .. Len(data)
    BY <1>1
  <2>2. b \in Seq(Nat)
    BY <1>1, <2>1
  <2>3. Len(b) = n
    BY <1>1
  <2>4. \A i \in 1 .. n : b[i] = data[pos + i]
    BY <1>1
  <2> QED BY <2>2, <2>3, <2>4
<1>3. a \in [1 .. n -> Nat] /\ b \in [1 .. n -> Nat]
  <2>1. DOMAIN a = 1 .. n /\ DOMAIN b = 1 .. n
    BY <1>2
  <2> HIDE DEF n, b
  <2> QED BY <1>2, <2>1
<1> HIDE DEF n, b
<1>4. \A i \in 1 .. n : a[i] = b[i]
  BY <1>1, <1>2
<1>5. a = b
  <2>1. a = [i \in 1 .. n |-> a[i]] /\ b = [i \in 1 .. n |-> b[i]]
    BY ONLY <1>3, Zenon
  <2>2. [i \in 1 .. n |-> a[i]] = [i \in 1 .. n |-> b[i]]
    BY ONLY <1>4, Zenon
  <2> QED BY ONLY <2>1, <2>2, Zenon
<1> QED BY <1>5 DEF n, b

\* The bytes of the bits of a tile are the tile again.
LEMMA RawBack ==
  ASSUME TileAssumption, NEW tile \in OneBit, NEW data \in Seq(Nat), NEW pos \in Nat,
         Holds(data, pos, Packed(tile))
  PROVE  RawTile(data, pos) = tile /\ pos + TileBytes <= Len(data)
<1>1. Packed(tile) \in Seq(Nat) /\ Len(Packed(tile)) = TileBytes
      /\ \A i \in 0 .. TilePixels - 1 : get_bit(Packed(tile), i) = tile[i]
  BY PackedBits
<1>2. RawBytes(data, pos) = Packed(tile)
  <2> DEFINE a == Packed(tile)
  <2>1. a \in Seq(Nat) /\ Holds(data, pos, a) /\ pos + TileBytes = pos + Len(a)
    BY <1>1
  <2> HIDE DEF a
  <2>2. SubSeq(data, pos + 1, pos + TileBytes) = a
    BY <2>1, PartIs
  <2> QED BY <2>2 DEF RawBytes, a
<1>3. tile = [i \in 0 .. TilePixels - 1 |-> tile[i]]
  BY DEF OneBit
<1>4. pos + TileBytes <= Len(data)
  BY <1>1 DEF Holds
<1> QED BY <1>1, <1>2, <1>3, <1>4 DEF RawTile

\* The places of the ones below i, in order.
OnesBelow(o, tile, i) ==
  /\ o \in Seq(Nat) /\ Len(o) <= i
  /\ \A m \in 1 .. Len(o) : o[m] < i /\ tile[o[m]] = 1
  /\ \A m \in 1 .. Len(o) - 1 : o[m] < o[m + 1]
  /\ \A j \in 0 .. i - 1 : tile[j] = 1 => \E m \in 1 .. Len(o) : o[m] = j

\* The places of the ones, with a pixel more.
LEMMA OneMore ==
  ASSUME NEW i \in Nat, NEW tile, NEW o, OnesBelow(o, tile, i)
  PROVE  OnesBelow(IF tile[i] = 1 THEN Append(o, i) ELSE o, tile, i + 1)
<1>1. o \in Seq(Nat) /\ Len(o) <= i /\ Len(o) \in Nat
  BY DEF OnesBelow
<1>2. CASE tile[i] = 1
  <2> DEFINE n == Len(o)
             p == Append(o, i)
  <2>1. p \in Seq(Nat) /\ Len(p) = n + 1 /\ p[n + 1] = i /\ \A m \in 1 .. n : p[m] = o[m]
    BY <1>1
  <2>2. /\ \A m \in 1 .. n : o[m] \in Nat /\ o[m] < i /\ tile[o[m]] = 1
        /\ \A m \in 1 .. n - 1 : o[m] < o[m + 1]
        /\ \A j \in 0 .. i - 1 : tile[j] = 1 => \E m \in 1 .. n : o[m] = j
    BY <1>1 DEF OnesBelow
  <2>3. n \in Nat /\ n <= i
    BY <1>1
  <2> HIDE DEF n, p
  <2>4. ASSUME NEW m \in 1 .. n + 1 PROVE p[m] < i + 1 /\ tile[p[m]] = 1
    <3>1. CASE m \in 1 .. n
      BY <2>1, <2>2, <3>1
    <3>2. CASE m = n + 1
      BY <1>2, <2>1, <3>2
    <3> QED BY <2>3, <3>1, <3>2
  <2>5. ASSUME NEW m \in 1 .. (n + 1) - 1 PROVE p[m] < p[m + 1]
    <3>1. m \in 1 .. n /\ m \in Nat
      BY <2>3
    <3>2. CASE m = n
      BY <2>1, <2>2, <3>1, <3>2
    <3>3. CASE m # n
      <4>1. m + 1 \in 1 .. n /\ m \in 1 .. n - 1
        BY <2>3, <3>1, <3>3
      <4> QED BY <2>1, <2>2, <3>1, <4>1
    <3> QED BY <3>2, <3>3
  <2>6. ASSUME NEW j \in 0 .. (i + 1) - 1, tile[j] = 1 PROVE \E m \in 1 .. n + 1 : p[m] = j
    <3>1. CASE j = i
      <4>1. n + 1 \in 1 .. n + 1
        BY <2>3
      <4> QED BY <2>1, <3>1, <4>1
    <3>2. CASE j # i
      <4>1. j \in 0 .. i - 1
        BY <3>2
      <4>2. PICK m \in 1 .. n : o[m] = j
        BY <2>2, <2>6, <4>1
      <4>3. m \in 1 .. n + 1
        BY <2>3
      <4> QED BY <2>1, <4>2, <4>3
    <3> QED BY <3>1, <3>2
  <2>7. n + 1 <= i + 1
    BY <2>3
  <2>8. OnesBelow(p, tile, i + 1)
    BY <2>1, <2>4, <2>5, <2>6, <2>7 DEF OnesBelow
  <2> QED BY <1>2, <2>8 DEF p
<1>3. CASE tile[i] # 1
  <2> DEFINE n == Len(o)
  <2>2. /\ \A m \in 1 .. n : o[m] \in Nat /\ o[m] < i /\ tile[o[m]] = 1
        /\ \A m \in 1 .. n - 1 : o[m] < o[m + 1]
        /\ \A j \in 0 .. i - 1 : tile[j] = 1 => \E m \in 1 .. n : o[m] = j
    BY <1>1 DEF OnesBelow
  <2>3. n \in Nat /\ n <= i + 1
    BY <1>1
  <2> HIDE DEF n
  <2>4. \A m \in 1 .. n : o[m] < i + 1 /\ tile[o[m]] = 1
    BY <2>2
  <2>5. \A j \in 0 .. (i + 1) - 1 : tile[j] = 1 => \E m \in 1 .. n : o[m] = j
    <3>1. \A j \in 0 .. (i + 1) - 1 : j = i \/ j \in 0 .. i - 1
      OBVIOUS
    <3> QED BY <1>3, <2>2, <3>1
  <2>6. OnesBelow(o, tile, i + 1)
    BY <1>1, <2>2, <2>3, <2>4, <2>5 DEF OnesBelow, n
  <2> QED BY <1>3, <2>6
<1> QED BY <1>2, <1>3

\* Ones are the places of the ones of a tile, in order.
LEMMA OnesAre ==
  ASSUME TileAssumption, NEW tile
  PROVE  OnesBelow(Ones(tile), tile, TilePixels)
<1>1. TilePixels \in Nat
  BY TileNumbers
<1>2. PICK Z : /\ Ones(tile) = Z[TilePixels]
               /\ Z[0] = <<>>
               /\ \A i \in 1 .. TilePixels : Z[i] = IF tile[i - 1] = 1 THEN Append(Z[i - 1], i - 1) ELSE Z[i - 1]
  BY <1>1, OnesIs
<1> DEFINE S == {i \in 0 .. TilePixels : OnesBelow(Z[i], tile, i)}
<1>3. 0 \in S
  <2> DEFINE e == <<>>
  <2>1. e \in Seq(Nat) /\ Len(e) <= 0 /\ 1 .. Len(e) = {} /\ 1 .. Len(e) - 1 = {} /\ 0 .. 0 - 1 = {}
    OBVIOUS
  <2> HIDE DEF e
  <2>2. OnesBelow(e, tile, 0)
    BY <2>1 DEF OnesBelow
  <2> QED BY <1>1, <1>2, <2>2 DEF e
<1>4. Steps(S, TilePixels)
  <2> SUFFICES ASSUME NEW i \in 0 .. TilePixels - 1, i \in S PROVE i + 1 \in S
    BY DEF Steps
  <2>1. OnesBelow(Z[i], tile, i)
    OBVIOUS
  <2> HIDE DEF S
  <2>2. i \in Nat /\ i + 1 \in 1 .. TilePixels /\ (i + 1) - 1 = i /\ i + 1 \in 0 .. TilePixels
    BY <1>1
  <2>3. Z[i + 1] = IF tile[i] = 1 THEN Append(Z[i], i) ELSE Z[i]
    BY <1>2, <2>2
  <2>4. OnesBelow(Z[i + 1], tile, i + 1)
    BY <2>1, <2>2, <2>3, OneMore
  <2> QED BY <2>2, <2>4 DEF S
<1>5. TilePixels \in S
  <2>1. TilePixels \in 0 .. TilePixels
    BY <1>1
  <2> HIDE DEF S
  <2> QED BY <1>1, <1>3, <1>4, <2>1, UpTo
<1> QED BY <1>2, <1>5

\* No one is there twice.
LEMMA OnesDiffer ==
  ASSUME NEW o, NEW tile, NEW i \in Nat, OnesBelow(o, tile, i), NEW k \in 1 .. Len(o), NEW m \in 1 .. Len(o), m < k
  PROVE  o[m] < o[k]
<1> DEFINE n == Len(o)
           S == {j \in 0 .. n - m : j > 0 => o[m] < o[m + j]}
<1>1. n \in Nat /\ \A j \in 1 .. n : o[j] \in Nat
  BY DEF OnesBelow
<1>2. \A j \in 1 .. n - 1 : o[j] < o[j + 1]
  BY DEF OnesBelow
<1>3. m \in 1 .. n /\ k \in 1 .. n
  OBVIOUS
<1> HIDE DEF n
<1>4. n - m \in Nat /\ 0 \in S
  BY <1>1, <1>3
<1>5. Steps(S, n - m)
  <2> SUFFICES ASSUME NEW j \in 0 .. (n - m) - 1, j \in S PROVE j + 1 \in S
    BY DEF Steps
  <2>1. j > 0 => o[m] < o[m + j]
    OBVIOUS
  <2> HIDE DEF S
  <2>2. m + j \in 1 .. n - 1 /\ m + j \in 1 .. n /\ (m + j) + 1 = m + (j + 1) /\ m + (j + 1) \in 1 .. n
        /\ j + 1 \in 0 .. n - m
    BY <1>1, <1>3
  <2>3. o[m + j] < o[m + (j + 1)] /\ o[m + j] \in Nat /\ o[m + (j + 1)] \in Nat /\ o[m] \in Nat
    BY <1>1, <1>2, <1>3, <2>2
  <2>4. CASE j = 0
    <3>1. m + j = m
      BY <1>3, <2>4
    <3> QED BY <2>2, <2>3, <3>1 DEF S
  <2>5. CASE j > 0
    BY <2>1, <2>2, <2>3, <2>5 DEF S
  <2> QED BY <2>4, <2>5
<1>6. k - m \in S
  <2>1. k - m \in 0 .. n - m
    BY <1>1, <1>3
  <2> HIDE DEF S
  <2> QED BY <1>4, <1>5, <2>1, UpTo
<1>7. k - m > 0 /\ m + (k - m) = k
  BY <1>3
<1> QED BY <1>6, <1>7

\* Flipping the ones of a difference is to apply it.
LEMMA FlipBack ==
  ASSUME TileAssumption, NEW old \in OneBit, NEW c \in OneBit
  PROVE  Flipped(old, Ones(c)) = [tile |-> Xor(old, c), whole |-> TRUE]
<1> DEFINE o == Ones(c)
           n == Len(o)
<1>1. OnesBelow(o, c, TilePixels)
  BY OnesAre
<1>2. TilePixels \in Nat
  BY TileNumbers
<1> HIDE DEF o
<1>3. o \in Seq(Nat) /\ n \in Nat /\ DOMAIN o = 1 .. n
  BY <1>1 DEF OnesBelow
<1>4. ASSUME NEW m \in 1 .. n PROVE o[m] \in 0 .. TilePixels - 1 /\ c[o[m]] = 1
  <2>1. o[m] \in Nat /\ o[m] < TilePixels /\ c[o[m]] = 1
    BY <1>1, <1>3 DEF OnesBelow
  <2> QED BY <1>2, <2>1
<1>5. PICK Z : /\ Flipped(old, o) = [tile |-> Z[Len(o)], whole |-> TRUE]
               /\ Z[0] = old
               /\ \A i \in 1 .. Len(o) : Z[i] = Flip(Z[i - 1], o[i])
  <2>1. \A m \in DOMAIN o : ~(o[m] >= TilePixels)
    <3>1. ASSUME NEW m \in 1 .. n PROVE ~(o[m] >= TilePixels)
      BY <1>2, <1>4
    <3> QED BY <1>3, <3>1
  <2>2. Len(o) \in Nat
    BY <1>3
  <2> HIDE DEF n
  <2> QED BY ONLY <2>1, <2>2, FlippedIs
<1> DEFINE Part(k) == [i \in 0 .. TilePixels - 1 |-> IF \E m \in 1 .. k : o[m] = i THEN 1 - old[i] ELSE old[i]]
           S == {k \in 0 .. n : Z[k] = Part(k)}
<1>6. old = [i \in 0 .. TilePixels - 1 |-> old[i]] /\ DOMAIN old = 0 .. TilePixels - 1
  BY DEF OneBit
<1>7. 0 \in S
  <2>1. 1 .. 0 = {} /\ 0 \in 0 .. n
    BY <1>3
  <2>2. Part(0) = old
    BY <1>6, <2>1
  <2> QED BY <1>5, <2>1, <2>2
<1>8. Steps(S, n)
  <2> SUFFICES ASSUME NEW k \in 0 .. n - 1, k \in S PROVE k + 1 \in S
    BY DEF Steps
  <2>1. Z[k] = Part(k)
    OBVIOUS
  <2> HIDE DEF S
  <2>2. k + 1 \in 1 .. Len(o) /\ (k + 1) - 1 = k /\ k + 1 \in 0 .. n /\ k + 1 \in 1 .. n
    BY <1>3
  <2>3. Z[k + 1] = Flip(Part(k), o[k + 1])
    BY <1>5, <2>1, <2>2
  <2>4. o[k + 1] \in 0 .. TilePixels - 1
    BY <1>4, <2>2
  <2>5. Flip(Part(k), o[k + 1]) = [i \in 0 .. TilePixels - 1 |-> IF i = o[k + 1] THEN 1 - Part(k)[i] ELSE Part(k)[i]]
    <3> DEFINE P == Part(k)
               a == o[k + 1]
    <3>1. P = [i \in 0 .. TilePixels - 1 |-> P[i]] /\ DOMAIN P = 0 .. TilePixels - 1
      OBVIOUS
    <3> HIDE DEF P, a
    <3>2. [P EXCEPT ![a] = 1 - @] = [i \in 0 .. TilePixels - 1 |-> IF i = a THEN 1 - P[i] ELSE P[i]]
      BY <3>1
    <3> QED BY <3>2 DEF Flip, P, a
  <2>6. ASSUME NEW i \in 0 .. TilePixels - 1
        PROVE  (IF i = o[k + 1] THEN 1 - Part(k)[i] ELSE Part(k)[i])
                 = (IF \E m \in 1 .. k + 1 : o[m] = i THEN 1 - old[i] ELSE old[i])
    <3>1. Part(k)[i] = IF \E m \in 1 .. k : o[m] = i THEN 1 - old[i] ELSE old[i]
      OBVIOUS
    <3> HIDE DEF Part
    <3>2. CASE i = o[k + 1]
      <4>1. ASSUME NEW m \in 1 .. k PROVE o[m] # i
        <5>1. m \in 1 .. Len(o) /\ k + 1 \in 1 .. Len(o) /\ m < k + 1
          BY <1>3, <2>2
        <5>2. o[m] < o[k + 1]
          BY <1>1, <1>2, <5>1, OnesDiffer
        <5>3. o[m] \in Nat /\ o[k + 1] \in Nat
          BY <1>3, <5>1
        <5> QED BY <3>2, <5>2, <5>3
      <4>2. k + 1 \in 1 .. k + 1
        BY <2>2
      <4> QED BY <3>1, <3>2, <4>1, <4>2
    <3>3. CASE i # o[k + 1]
      <4>1. \A m \in 1 .. k + 1 : m \in 1 .. k \/ m = k + 1
        BY <1>3
      <4>2. \A m \in 1 .. k : m \in 1 .. k + 1
        BY <1>3
      <4>3. (\E m \in 1 .. k + 1 : o[m] = i) <=> (\E m \in 1 .. k : o[m] = i)
        BY <3>3, <4>1, <4>2
      <4> QED BY <3>1, <3>3, <4>3
    <3> QED BY <3>2, <3>3
  <2>7. Z[k + 1] = Part(k + 1)
    <3>1. Part(k + 1) = [i \in 0 .. TilePixels - 1 |-> IF i = o[k + 1] THEN 1 - Part(k)[i] ELSE Part(k)[i]]
      BY <2>6, Zenon
    <3> QED BY <2>3, <2>5, <3>1, Zenon
  <2> QED BY <2>2, <2>7 DEF S
<1>9. Z[n] = Part(n)
  <2>1. n \in 0 .. n
    BY <1>3
  <2> HIDE DEF S
  <2>2. n \in S
    BY <1>3, <1>7, <1>8, <2>1, UpTo
  <2> QED BY <2>2 DEF S
<1>10. ASSUME NEW i \in 0 .. TilePixels - 1
       PROVE  (IF \E m \in 1 .. n : o[m] = i THEN 1 - old[i] ELSE old[i]) = (old[i] + c[i]) % 2
  <2>1. (\E m \in 1 .. n : o[m] = i) <=> c[i] = 1
    <3>1. c[i] = 1 => \E m \in 1 .. n : o[m] = i
      BY <1>1 DEF OnesBelow
    <3> QED BY <1>4, <3>1
  <2>2. c[i] \in {0, 1} /\ old[i] \in {0, 1}
    BY DEF OneBit
  <2>3. ASSUME NEW x \in {0, 1}, NEW y \in {0, 1} PROVE (x + y) % 2 = IF y = 1 THEN 1 - x ELSE x
    OBVIOUS
  <2> QED BY <2>1, <2>2, <2>3
<1>11. Part(n) = Xor(old, c)
  BY <1>6, <1>10 DEF Xor
<1> QED BY <1>5, <1>9, <1>11 DEF o

\* xor_tile_bits flips what encode_xor_bits wrote, and the analyzer can step
\* over it.
LEMMA BitsBack ==
  ASSUME TileAssumption, NEW old \in OneBit, NEW c \in OneBit, NEW data \in Seq(Nat), NEW pos \in Nat,
         Holds(data, pos, encode_xor_bits(c))
  PROVE  /\ xor_tile_bits(old, data, pos) = Decoded(Xor(old, c), pos + Len(encode_xor_bits(c)))
         /\ ByteAt(data, pos) <= TilePixels /\ pos < Len(data) /\ ByteAt(data, pos) \in Nat
         /\ pos + 1 + ByteAt(data, pos) = pos + Len(encode_xor_bits(c))
         /\ pos + Len(encode_xor_bits(c)) <= Len(data)
<1> DEFINE o == Ones(c)
           n == Len(o)
<1>1. o \in Seq(Nat) /\ n \in Nat /\ n <= TilePixels
  <2>1. OnesBelow(o, c, TilePixels)
    BY OnesAre
  <2> QED BY <2>1 DEF OnesBelow
<1>2. Flipped(old, o) = [tile |-> Xor(old, c), whole |-> TRUE]
  BY FlipBack
<1>3. encode_xor_bits(c) = <<n>> \o o
  BY DEF encode_xor_bits
<1> HIDE DEF o, n
<1>4. pos < Len(data) /\ ByteAt(data, pos) = n /\ Holds(data, pos + 1, o) /\ pos + 1 + Len(o) <= Len(data)
      /\ Len(<<n>> \o o) = 1 + Len(o)
  BY <1>1, <1>3, HoldsHead
<1>5. n = Len(o) /\ Len(data) \in Nat
  BY DEF n
<1>6. ~(pos >= Len(data)) /\ ~(pos + 1 + n > Len(data)) /\ pos + 1 + n = pos + Len(<<n>> \o o)
  BY <1>1, <1>4, <1>5
<1>7. SubSeq(data, pos + 2, pos + 1 + n) = o
  <2>1. pos + 1 \in Nat /\ (pos + 1) + 1 = pos + 2 /\ pos + 1 + n = (pos + 1) + Len(o)
    BY <1>1, <1>5
  <2>2. SubSeq(data, (pos + 1) + 1, pos + 1 + n) = o
    BY <1>1, <1>4, <2>1, PartIs
  <2> QED BY <2>1, <2>2
<1>8. xor_tile_bits(old, data, pos) = Decoded(Xor(old, c), pos + 1 + n)
  <2> DEFINE end == pos + 1 + ByteAt(data, pos)
             result == Flipped(old, SubSeq(data, pos + 2, end))
  <2>1. result.tile = Xor(old, c) /\ result.whole = TRUE /\ end = pos + 1 + n
    <3>1. end = pos + 1 + n
      BY <1>4
    <3> HIDE DEF end
    <3>2. result = [tile |-> Xor(old, c), whole |-> TRUE]
      BY <1>2, <1>7, <3>1
    <3> HIDE DEF result
    <3> QED BY <3>1, <3>2
  <2>2. ~(pos >= Len(data)) /\ ~(end > Len(data))
    BY <1>4, <1>6
  <2>3. xor_tile_bits(old, data, pos) =
          IF pos >= Len(data) \/ end > Len(data) THEN Decoded(old, Len(data))
          ELSE Decoded(result.tile, IF result.whole THEN end ELSE Len(data))
    BY DEF xor_tile_bits
  <2> HIDE DEF end, result
  <2> QED BY <2>1, <2>2, <2>3
<1> QED BY <1>1, <1>3, <1>4, <1>5, <1>6, <1>8

\* The places of the gaps between the ones are the ones.
LEMMA GapsAre ==
  ASSUME TileAssumption, NEW tile
  PROVE  LET o == Ones(tile)
             gaps == Gaps(tile)
         IN /\ o \in Seq(Nat) /\ Len(o) \in Nat /\ Len(o) <= TilePixels
            /\ gaps \in Seq(Nat) /\ Len(gaps) = Len(o) /\ Places(gaps) = o
<1> DEFINE o == Ones(tile)
           n == Len(o)
           gaps == Gaps(tile)
<1>1. OnesBelow(o, tile, TilePixels)
  BY OnesAre
<1>2. gaps = [k \in DOMAIN o |-> IF k = 1 THEN o[1] ELSE o[k] - o[k - 1] - 1]
  BY DEF Gaps
<1> HIDE DEF o, gaps
<1>3. o \in Seq(Nat) /\ n \in Nat /\ n <= TilePixels /\ DOMAIN o = 1 .. n /\ \A k \in 1 .. n : o[k] \in Nat
  BY <1>1 DEF OnesBelow
<1>4. \A m \in 1 .. n - 1 : o[m] < o[m + 1]
  BY <1>1 DEF OnesBelow
<1> DEFINE s(k) == IF k = 1 THEN o[1] ELSE o[k] - o[k - 1] - 1
<1>5. ASSUME NEW k \in 1 .. n PROVE gaps[k] = s(k) /\ s(k) \in Nat
  <2>1. gaps[k] = s(k)
    BY <1>2, <1>3
  <2>2. CASE k = 1
    BY <1>3, <2>1, <2>2
  <2>3. CASE k # 1
    <3>1. k - 1 \in 1 .. n - 1 /\ (k - 1) + 1 = k /\ k - 1 \in 1 .. n
      BY <1>3, <2>3
    <3>2. o[k - 1] < o[k] /\ o[k] \in Nat /\ o[k - 1] \in Nat
      BY <1>3, <1>4, <3>1
    <3>3. s(k) = o[k] - o[k - 1] - 1
      BY <2>3
    <3>4. o[k] - o[k - 1] - 1 \in Nat
      BY <3>2
    <3> QED BY <2>1, <3>3, <3>4
  <2> QED BY <2>2, <2>3
<1>6. gaps \in Seq(Nat) /\ Len(gaps) = n /\ DOMAIN gaps = 1 .. n
  <2>1. gaps \in [1 .. n -> Nat]
    <3>1. gaps = [k \in 1 .. n |-> s(k)]
      BY <1>2, <1>3
    <3> HIDE DEF s, n
    <3> QED BY <1>5, <3>1
  <2> HIDE DEF n
  <2> QED BY <1>3, <2>1, TableIs
<1>7. PICK Z : /\ Places(gaps) = [m \in DOMAIN gaps |-> Z[m]]
               /\ Z[0] = -1
               /\ \A i \in 1 .. Len(gaps) : Z[i] = Z[i - 1] + gaps[i] + 1
  <2>1. Len(gaps) \in Nat
    BY <1>3, <1>6
  <2> QED BY <2>1, PlacesIs
<1> DEFINE S == {k \in 0 .. n : k > 0 => Z[k] = o[k]}
<1>8. 0 \in S
  BY <1>3
<1>9. Steps(S, n)
  <2> SUFFICES ASSUME NEW k \in 0 .. n - 1, k \in S PROVE k + 1 \in S
    BY DEF Steps
  <2>1. k > 0 => Z[k] = o[k]
    OBVIOUS
  <2> HIDE DEF S
  <2>2. k + 1 \in 1 .. n /\ (k + 1) - 1 = k /\ k + 1 \in 0 .. n
    BY <1>3
  <2>3. Z[k + 1] = Z[k] + gaps[k + 1] + 1
    BY <1>6, <1>7, <2>2
  <2>4. gaps[k + 1] = s(k + 1)
    BY <1>5, <2>2
  <2>5. CASE k = 0
    <3>1. s(k + 1) = o[1] /\ o[k + 1] = o[1] /\ o[1] \in Nat
      BY <1>3, <2>2, <2>5
    <3>2. Z[k + 1] = -1 + o[1] + 1
      BY <1>7, <2>3, <2>4, <2>5, <3>1
    <3>3. Z[k + 1] = o[k + 1]
      BY <3>1, <3>2
    <3> QED BY <2>2, <3>3 DEF S
  <2>6. CASE k > 0
    <3>1. s(k + 1) = o[k + 1] - o[k] - 1
      BY <2>2, <2>6
    <3>2. k \in 1 .. n /\ o[k] \in Nat /\ o[k + 1] \in Nat
      BY <1>3, <2>2, <2>6
    <3>3. Z[k + 1] = o[k] + (o[k + 1] - o[k] - 1) + 1
      BY <2>1, <2>3, <2>4, <2>6, <3>1
    <3>4. Z[k + 1] = o[k + 1]
      BY <3>2, <3>3
    <3> QED BY <2>2, <3>4 DEF S
  <2> QED BY <2>5, <2>6
<1>10. ASSUME NEW k \in 1 .. n PROVE Z[k] = o[k]
  <2>1. k \in 0 .. n /\ k > 0
    BY <1>3
  <2> HIDE DEF S
  <2>2. k \in S
    BY <1>3, <1>8, <1>9, <2>1, UpTo
  <2> QED BY <2>1, <2>2 DEF S
<1>11. Places(gaps) = o
  <2>1. o = [k \in 1 .. n |-> o[k]]
    BY <1>3
  <2>2. Places(gaps) = [m \in 1 .. n |-> Z[m]]
    BY <1>6, <1>7
  <2> HIDE DEF n
  <2> QED BY <1>10, <2>1, <2>2, Zenon
<1> QED BY <1>3, <1>6, <1>11 DEF o, gaps

\* The half bytes of the gaps, two to a byte.
NibbleBytes(gaps) ==
  [b \in 1 .. (Len(gaps) + 1) \div 2 |->
     gaps[2 * b - 1] * (GapMax + 1) + (IF 2 * b <= Len(gaps) THEN gaps[2 * b] ELSE 0)]

\* A gap is in its half of its byte.
LEMMA HalvesAre ==
  ASSUME TileAssumption, NEW gaps \in Seq(Nat), \A k \in 1 .. Len(gaps) : ~(gaps[k] > GapMax)
  PROVE  /\ NibbleBytes(gaps) \in Seq(Nat) /\ Len(NibbleBytes(gaps)) = (Len(gaps) + 1) \div 2
         /\ \A k \in 1 .. Len(gaps) :
              /\ (k - 1) \div 2 \in Nat /\ (k - 1) \div 2 + 1 \in 1 .. Len(NibbleBytes(gaps))
              /\ LET byte == NibbleBytes(gaps)[(k - 1) \div 2 + 1]
                 IN gaps[k] = IF k % 2 = 1 THEN byte \div (GapMax + 1) ELSE byte % (GapMax + 1)
<1> DEFINE n == Len(gaps)
           w == GapMax + 1
           high(b) == gaps[2 * b - 1]
           low(b) == IF 2 * b <= n THEN gaps[2 * b] ELSE 0
           h == (n + 1) \div 2
           nb == NibbleBytes(gaps)
<1>1. n \in Nat /\ \A k \in 1 .. n : gaps[k] \in Nat
  OBVIOUS
<1>2. w \in Nat \ {0} /\ GapMax \in Nat /\ w - 1 = GapMax
  BY TileNumbers
<1>3. \A k \in 1 .. n : gaps[k] \in 0 .. w - 1
  <2>1. ASSUME NEW k \in 1 .. n PROVE gaps[k] \in 0 .. w - 1
    <3>1. gaps[k] \in Nat /\ ~(gaps[k] > GapMax)
      BY <1>1
    <3> QED BY <1>2, <3>1
  <2> QED BY <2>1
<1>4. nb = [b \in 1 .. h |-> high(b) * w + low(b)]
  BY DEF NibbleBytes
<1> HIDE DEF n, w, nb
<1>5. h \in Nat /\ \A b \in 1 .. h : 2 * b - 1 \in 1 .. n /\ (2 * b <= n => 2 * b \in 1 .. n)
  BY <1>1
<1>6. ASSUME NEW b \in 1 .. h
      PROVE  /\ high(b) \in 0 .. w - 1 /\ low(b) \in 0 .. w - 1 /\ nb[b] = high(b) * w + low(b)
             /\ nb[b] \in Nat /\ nb[b] \div w = high(b) /\ nb[b] % w = low(b)
  <2>1. high(b) \in 0 .. w - 1
    BY <1>3, <1>5
  <2>2. low(b) \in 0 .. w - 1
    <3>1. CASE 2 * b <= n
      BY <1>3, <1>5, <3>1
    <3>2. CASE ~(2 * b <= n)
      BY <1>2, <3>2
    <3> QED BY <3>1, <3>2
  <2>3. nb[b] = high(b) * w + low(b)
    BY <1>4
  <2> DEFINE x == high(b)
             y == low(b)
             z == nb[b]
  <2>4. x \in 0 .. w - 1 /\ y \in 0 .. w - 1 /\ z = x * w + y
    BY <2>1, <2>2, <2>3
  <2> HIDE DEF x, y, z
  <2>5. x \in Int /\ x * w \in Nat /\ x * w = w * x /\ y \in Nat /\ w \in Nat
    BY <1>2, <2>4
  <2>6. z \in Nat /\ z \in Int /\ z = w * x + y
    BY <2>4, <2>5
  <2>7. z \div w = x /\ z % w = y
    BY ONLY <1>2, <2>4, <2>5, <2>6, QuotientIs
  <2> QED BY <2>4, <2>6, <2>7 DEF x, y, z
<1>7. nb \in Seq(Nat) /\ Len(nb) = h
  <2>1. nb \in [1 .. h -> Nat]
    <3> HIDE DEF h, high, low
    <3>1. \A b \in 1 .. h : high(b) * w + low(b) \in Nat
      BY <1>6
    <3> QED BY <1>4, <3>1
  <2> HIDE DEF h
  <2> QED BY <1>5, <2>1, TableIs
<1>8. ASSUME NEW k \in 1 .. n
      PROVE  /\ (k - 1) \div 2 \in Nat /\ (k - 1) \div 2 + 1 \in 1 .. Len(nb)
             /\ gaps[k] = IF k % 2 = 1 THEN nb[(k - 1) \div 2 + 1] \div w ELSE nb[(k - 1) \div 2 + 1] % w
  <2> DEFINE b == (k - 1) \div 2 + 1
  <2>1. (k - 1) \div 2 \in Nat /\ b \in 1 .. h
    BY <1>1
  <2>2. k % 2 = 1 => 2 * b - 1 = k
    BY <1>1
  <2>3. k % 2 # 1 => 2 * b = k /\ 2 * b <= n
    BY <1>1
  <2> HIDE DEF b, h
  <2>4. nb[b] \div w = high(b) /\ nb[b] % w = low(b)
    BY <1>6, <2>1
  <2>5. gaps[k] = IF k % 2 = 1 THEN nb[b] \div w ELSE nb[b] % w
    <3>1. CASE k % 2 = 1
      BY <2>2, <2>4, <3>1
    <3>2. CASE k % 2 # 1
      BY <2>3, <2>4, <3>2
    <3> QED BY <3>1, <3>2
  <2> QED BY <1>7, <2>1, <2>5 DEF b
<1> QED BY <1>7, <1>8 DEF n, w, nb

\* xor_tile_nibbles flips what encode_xor_nibbles wrote, and the analyzer can
\* step over it.
LEMMA NibblesBack ==
  ASSUME TileAssumption, NEW old \in OneBit, NEW c \in OneBit
  PROVE  /\ encode_xor_nibbles(c) \in Seq(Nat)
         /\ encode_xor_nibbles(c) # <<>> =>
              \A data \in Seq(Nat), pos \in Nat :
                Holds(data, pos, encode_xor_nibbles(c)) =>
                  /\ xor_tile_nibbles(old, data, pos) = Decoded(Xor(old, c), pos + Len(encode_xor_nibbles(c)))
                  /\ ByteAt(data, pos) \in Nat /\ ByteAt(data, pos) <= TilePixels /\ pos < Len(data)
                  /\ pos + 1 + (ByteAt(data, pos) + 1) \div 2 = pos + Len(encode_xor_nibbles(c))
                  /\ pos + Len(encode_xor_nibbles(c)) <= Len(data)
<1> DEFINE gaps == Gaps(c)
           n == Len(gaps)
           nb == NibbleBytes(gaps)
           nibs == encode_xor_nibbles(c)
           large == \E k \in 1 .. n : gaps[k] > GapMax
<1>1. gaps \in Seq(Nat) /\ n \in Nat /\ n <= TilePixels /\ Places(gaps) = Ones(c)
  BY GapsAre
<1>2. nibs = IF large THEN <<>> ELSE <<n>> \o nb
  BY DEF encode_xor_nibbles, NibbleBytes
<1> HIDE DEF gaps, nibs
<1>3. CASE large
  <2>1. nibs = <<>>
    BY <1>2, <1>3
  <2>2. nibs \in Seq(Nat)
    BY <2>1
  <2> QED BY <2>1, <2>2 DEF nibs
<1>4. CASE ~large
  <2>1. nibs = <<n>> \o nb
    BY <1>2, <1>4
  <2>2. \A k \in 1 .. n : ~(gaps[k] > GapMax)
    BY <1>4
  <2>3. /\ nb \in Seq(Nat) /\ Len(nb) = (n + 1) \div 2
        /\ \A k \in 1 .. n :
              /\ (k - 1) \div 2 \in Nat /\ (k - 1) \div 2 + 1 \in 1 .. Len(nb)
              /\ LET byte == nb[(k - 1) \div 2 + 1]
                 IN gaps[k] = IF k % 2 = 1 THEN byte \div (GapMax + 1) ELSE byte % (GapMax + 1)
    BY <1>1, <2>2, HalvesAre
  <2> HIDE DEF nb, n, large
  <2>4. nibs \in Seq(Nat)
    <3>1. <<n>> \in Seq(Nat)
      BY <1>1
    <3> QED BY <2>1, <2>3, <3>1
  <2>5. ASSUME NEW data \in Seq(Nat), NEW pos \in Nat, Holds(data, pos, nibs)
        PROVE  /\ xor_tile_nibbles(old, data, pos) = Decoded(Xor(old, c), pos + Len(nibs))
               /\ ByteAt(data, pos) \in Nat /\ ByteAt(data, pos) <= TilePixels /\ pos < Len(data)
               /\ pos + 1 + (ByteAt(data, pos) + 1) \div 2 = pos + Len(nibs)
               /\ pos + Len(nibs) <= Len(data)
    <3>1. pos < Len(data) /\ ByteAt(data, pos) = n /\ Holds(data, pos + 1, nb) /\ pos + 1 + Len(nb) <= Len(data)
          /\ Len(<<n>> \o nb) = 1 + Len(nb)
      BY <1>1, <2>1, <2>3, <2>5, HoldsHead
    <3>2. Len(nb) \in Nat /\ Len(data) \in Nat
      BY <2>3
    <3> DEFINE end == pos + 1 + (ByteAt(data, pos) + 1) \div 2
    <3>3. end = pos + 1 + Len(nb) /\ end = pos + Len(nibs) /\ ~(pos >= Len(data)) /\ ~(end > Len(data))
      <4>1. end = pos + 1 + Len(nb)
        BY <2>3, <3>1
      <4> HIDE DEF end
      <4>2. Len(nibs) = 1 + Len(nb)
        BY <2>1, <3>1
      <4>3. pos + 1 + Len(nb) = pos + Len(nibs)
        BY <3>2, <4>2
      <4> QED BY <3>1, <3>2, <4>1, <4>3
    <3> DEFINE byte(k) == ByteAt(data, pos + 1 + (k - 1) \div 2)
               gap(k) == IF k % 2 = 1 THEN byte(k) \div (GapMax + 1) ELSE byte(k) % (GapMax + 1)
    <3>4. ASSUME NEW k \in 1 .. n PROVE gap(k) = gaps[k]
      <4> DEFINE q == (k - 1) \div 2
      <4>1. q \in Nat /\ q + 1 \in 1 .. Len(nb)
            /\ gaps[k] = IF k % 2 = 1 THEN nb[q + 1] \div (GapMax + 1) ELSE nb[q + 1] % (GapMax + 1)
        BY <2>3
      <4> HIDE DEF q
      <4>2. data[(pos + 1) + (q + 1)] = nb[q + 1]
        BY <3>1, <4>1 DEF Holds
      <4>3. (pos + 1) + (q + 1) = (pos + 1 + q) + 1
        BY <4>1
      <4>4. ByteAt(data, pos + 1 + q) = nb[q + 1]
        BY <4>2, <4>3 DEF ByteAt
      <4> QED BY <4>1, <4>4 DEF q
    <3>5. [k \in 1 .. ByteAt(data, pos) |-> gap(k)] = gaps
      <4>1. gaps = [k \in 1 .. n |-> gaps[k]]
        BY <1>1 DEF n
      <4> HIDE DEF gap
      <4>2. [k \in 1 .. n |-> gap(k)] = [k \in 1 .. n |-> gaps[k]]
        BY <3>4, Zenon
      <4> QED BY <3>1, <4>1, <4>2, Zenon
    <3> DEFINE result == Flipped(old, Places([k \in 1 .. ByteAt(data, pos) |-> gap(k)]))
    <3>6. result = [tile |-> Xor(old, c), whole |-> TRUE]
      <4>1. result = Flipped(old, Ones(c))
        BY <1>1, <3>5, Zenon
      <4> HIDE DEF result
      <4> QED BY <4>1, FlipBack
    <3>7. xor_tile_nibbles(old, data, pos) =
            IF pos >= Len(data) \/ end > Len(data) THEN Decoded(old, Len(data))
            ELSE Decoded(result.tile, IF result.whole THEN end ELSE Len(data))
      BY DEF xor_tile_nibbles
    <3> HIDE DEF result, end
    <3>8. result.tile = Xor(old, c) /\ result.whole = TRUE
      BY <3>6
    <3>9. xor_tile_nibbles(old, data, pos) = Decoded(Xor(old, c), end)
      BY <3>3, <3>7, <3>8
    <3>10. end <= Len(data) /\ ByteAt(data, pos) \in Nat /\ ByteAt(data, pos) <= TilePixels
      BY <1>1, <3>1, <3>2, <3>3
    <3> QED BY <3>1, <3>3, <3>9, <3>10 DEF end
  <2> QED BY <2>4, <2>5 DEF nibs
<1> QED BY <1>3, <1>4

\* The bytes of a tile in a mode: the player draws the tile from them, and the
\* analyzer steps over them.
Encodes(mode, bytes, tile, old) ==
  /\ mode \in Nat /\ bytes \in Seq(Nat)
  /\ \A data \in Seq(Nat), pos \in Nat :
       Holds(data, pos, bytes) =>
         /\ DecodeTile(old, mode, data, pos) = Decoded(tile, pos + Len(bytes))
         /\ ~CutShort(mode, data, pos)
         /\ Skipped(mode, data, pos) = [ok |-> TRUE, pos |-> pos + Len(bytes)]

\* The decoder of each mode.
LEMMA DecodeTileIs ==
  ASSUME NEW old \in OneBit, NEW data \in Seq(Nat), NEW pos \in Nat
  PROVE  /\ DecodeTile(old, SOLID0, data, pos) = Decoded(BlackTile, pos)
         /\ DecodeTile(old, SOLID1, data, pos) = Decoded([i \in DOMAIN old |-> 1], pos)
         /\ DecodeTile(old, RAW1, data, pos) = Decoded(RawTile(data, pos), pos + TileBytes)
         /\ DecodeTile(old, XOR_RAW1, data, pos) = Decoded(Xor(old, RawTile(data, pos)), pos + TileBytes)
         /\ DecodeTile(old, RLE1, data, pos) = set_tile_rle(old, data, pos)
         /\ DecodeTile(old, XOR_RLE1, data, pos) = xor_tile_rle(old, data, pos)
         /\ DecodeTile(old, XOR_BITS1, data, pos) = xor_tile_bits(old, data, pos)
         /\ DecodeTile(old, XOR_NIBS1, data, pos) = xor_tile_nibbles(old, data, pos)
<1> DEFINE a == Decoded(BlackTile, pos)
           b == Decoded([i \in DOMAIN old |-> 1], pos)
           c == Decoded(RawTile(data, pos), pos + TileBytes)
           d == Decoded(Xor(old, RawTile(data, pos)), pos + TileBytes)
           e == set_tile_rle(old, data, pos)
           f == xor_tile_rle(old, data, pos)
           g == xor_tile_bits(old, data, pos)
           h == xor_tile_nibbles(old, data, pos)
           D(mode) == CASE mode = SOLID0 -> a
                        [] mode = SOLID1 -> b
                        [] mode = RAW1 -> c
                        [] mode = XOR_RAW1 -> d
                        [] mode = RLE1 -> e
                        [] mode = XOR_RLE1 -> f
                        [] mode = XOR_BITS1 -> g
                        [] mode = XOR_NIBS1 -> h
<1>1. \A mode : DecodeTile(old, mode, data, pos) = D(mode)
  BY DEF DecodeTile
<1> HIDE DEF a, b, c, d, e, f, g, h
<1>2. /\ D(SOLID0) = a
      /\ D(SOLID1) = b
      /\ D(RAW1) = c
      /\ D(XOR_RAW1) = d
      /\ D(RLE1) = e
      /\ D(XOR_RLE1) = f
      /\ D(XOR_BITS1) = g
      /\ D(XOR_NIBS1) = h
  BY DEF SOLID0, SOLID1, RAW1, XOR_RAW1, RLE1, XOR_RLE1, XOR_BITS1, XOR_NIBS1
<1> HIDE DEF D
<1> QED BY <1>1, <1>2 DEF a, b, c, d, e, f, g, h

\* A tile all of one value needs no bytes.
LEMMA SolidBack ==
  ASSUME NEW tile \in OneBit, NEW old \in OneBit
  PROVE  /\ Solid(tile, 0) => Encodes(SOLID0, <<>>, tile, old)
         /\ Solid(tile, 1) => Encodes(SOLID1, <<>>, tile, old)
<1>1. tile = [i \in 0 .. TilePixels - 1 |-> tile[i]] /\ DOMAIN tile = 0 .. TilePixels - 1
      /\ DOMAIN old = 0 .. TilePixels - 1
  BY DEF OneBit
<1> DEFINE e == <<>>
<1>2. e \in Seq(Nat) /\ \A pos \in Nat : pos + Len(e) = pos
  OBVIOUS
<1> HIDE DEF e
<1>3. ASSUME Solid(tile, 0) PROVE Encodes(SOLID0, e, tile, old)
  <2>1. tile = BlackTile
    <3>1. \A i \in 0 .. TilePixels - 1 : tile[i] = 0
      BY <1>1, <1>3 DEF Solid
    <3> QED BY <1>1, <3>1 DEF BlackTile
  <2>2. ASSUME NEW data \in Seq(Nat), NEW pos \in Nat
        PROVE  /\ DecodeTile(old, SOLID0, data, pos) = Decoded(tile, pos)
               /\ ~CutShort(SOLID0, data, pos) /\ Skipped(SOLID0, data, pos) = [ok |-> TRUE, pos |-> pos]
    <3>1. DecodeTile(old, SOLID0, data, pos) = Decoded(tile, pos)
      BY <2>1, DecodeTileIs
    <3>2. ~CutShort(SOLID0, data, pos) /\ Skipped(SOLID0, data, pos) = [ok |-> TRUE, pos |-> pos]
      BY DEF CutShort, Skipped, SOLID0, SOLID1, RAW1, XOR_RAW1
    <3> QED BY <3>1, <3>2
  <2>3. SOLID0 \in Nat
    BY DEF SOLID0
  <2> QED BY <1>2, <2>2, <2>3 DEF Encodes
<1>4. ASSUME Solid(tile, 1) PROVE Encodes(SOLID1, e, tile, old)
  <2>1. tile = [i \in DOMAIN old |-> 1]
    <3>1. \A i \in 0 .. TilePixels - 1 : tile[i] = 1
      BY <1>1, <1>4 DEF Solid
    <3> QED BY <1>1, <3>1
  <2>2. ASSUME NEW data \in Seq(Nat), NEW pos \in Nat
        PROVE  /\ DecodeTile(old, SOLID1, data, pos) = Decoded(tile, pos)
               /\ ~CutShort(SOLID1, data, pos) /\ Skipped(SOLID1, data, pos) = [ok |-> TRUE, pos |-> pos]
    <3>1. DecodeTile(old, SOLID1, data, pos) = Decoded([i \in DOMAIN old |-> 1], pos)
      BY DecodeTileIs
    <3>2. ~CutShort(SOLID1, data, pos) /\ Skipped(SOLID1, data, pos) = [ok |-> TRUE, pos |-> pos]
      BY DEF CutShort, Skipped, SOLID0, SOLID1, RAW1, XOR_RAW1
    <3> QED BY <2>1, <3>1, <3>2
  <2>3. SOLID1 \in Nat
    BY DEF SOLID1
  <2> QED BY <1>2, <2>2, <2>3 DEF Encodes
<1> QED BY <1>3, <1>4 DEF e

\* The bits of a tile, or of its difference, encode it.
LEMMA RawEncodes ==
  ASSUME TileAssumption, NEW tile \in OneBit, NEW old \in OneBit
  PROVE  Encodes(RAW1, Packed(tile), tile, old) /\ Encodes(XOR_RAW1, Packed(Xor(tile, old)), tile, old)
<1> DEFINE c == Xor(tile, old)
<1>1. c \in OneBit /\ Xor(old, c) = tile
  BY XorBack
<1> HIDE DEF c
<1>2. /\ Packed(tile) \in Seq(Nat) /\ Len(Packed(tile)) = TileBytes
      /\ Packed(c) \in Seq(Nat) /\ Len(Packed(c)) = TileBytes
  BY <1>1, PackedBits
<1>3. RAW1 \in Nat /\ XOR_RAW1 \in Nat
  BY DEF RAW1, XOR_RAW1
<1>4. ASSUME NEW data \in Seq(Nat), NEW pos \in Nat
      PROVE  /\ DecodeTile(old, RAW1, data, pos) = Decoded(RawTile(data, pos), pos + TileBytes)
             /\ DecodeTile(old, XOR_RAW1, data, pos) = Decoded(Xor(old, RawTile(data, pos)), pos + TileBytes)
             /\ CutShort(RAW1, data, pos) <=> pos + TileBytes > Len(data)
             /\ CutShort(XOR_RAW1, data, pos) <=> pos + TileBytes > Len(data)
             /\ Skipped(RAW1, data, pos) = [ok |-> pos + TileBytes <= Len(data), pos |-> pos + TileBytes]
             /\ Skipped(XOR_RAW1, data, pos) = [ok |-> pos + TileBytes <= Len(data), pos |-> pos + TileBytes]
  <2>1. DecodeTile(old, RAW1, data, pos) = Decoded(RawTile(data, pos), pos + TileBytes)
    BY DecodeTileIs
  <2>2. DecodeTile(old, XOR_RAW1, data, pos) = Decoded(Xor(old, RawTile(data, pos)), pos + TileBytes)
    BY DecodeTileIs
  <2>3. Skipped(RAW1, data, pos) = [ok |-> pos + TileBytes <= Len(data), pos |-> pos + TileBytes]
    BY DEF Skipped, SOLID0, SOLID1, RAW1, XOR_RAW1
  <2>4. Skipped(XOR_RAW1, data, pos) = [ok |-> pos + TileBytes <= Len(data), pos |-> pos + TileBytes]
    BY DEF Skipped, SOLID0, SOLID1, RAW1, XOR_RAW1
  <2>5. CutShort(RAW1, data, pos) <=> pos + TileBytes > Len(data)
    BY DEF CutShort
  <2>6. CutShort(XOR_RAW1, data, pos) <=> pos + TileBytes > Len(data)
    BY DEF CutShort
  <2> QED BY <2>1, <2>2, <2>3, <2>4, <2>5, <2>6
<1>5. ASSUME NEW data \in Seq(Nat), NEW pos \in Nat, NEW l \in Nat, pos + l <= Len(data)
      PROVE  (pos + l <= Len(data)) = TRUE /\ ~(pos + l > Len(data))
  BY <1>5
<1>6. TileBytes \in Nat
  BY TileNumbers
<1>7. ASSUME NEW data \in Seq(Nat), NEW pos \in Nat, Holds(data, pos, Packed(tile))
      PROVE  /\ DecodeTile(old, RAW1, data, pos) = Decoded(tile, pos + Len(Packed(tile)))
             /\ ~CutShort(RAW1, data, pos)
             /\ Skipped(RAW1, data, pos) = [ok |-> TRUE, pos |-> pos + Len(Packed(tile))]
  <2>1. RawTile(data, pos) = tile /\ pos + TileBytes <= Len(data)
    BY <1>7, RawBack
  <2>2. (pos + TileBytes <= Len(data)) = TRUE /\ ~(pos + TileBytes > Len(data))
    BY <1>5, <1>6, <2>1
  <2> QED BY <1>2, <1>4, <2>1, <2>2
<1>8. ASSUME NEW data \in Seq(Nat), NEW pos \in Nat, Holds(data, pos, Packed(c))
      PROVE  /\ DecodeTile(old, XOR_RAW1, data, pos) = Decoded(tile, pos + Len(Packed(c)))
             /\ ~CutShort(XOR_RAW1, data, pos)
             /\ Skipped(XOR_RAW1, data, pos) = [ok |-> TRUE, pos |-> pos + Len(Packed(c))]
  <2>1. RawTile(data, pos) = c /\ pos + TileBytes <= Len(data)
    BY <1>1, <1>8, RawBack
  <2>2. (pos + TileBytes <= Len(data)) = TRUE /\ ~(pos + TileBytes > Len(data))
    BY <1>5, <1>6, <2>1
  <2> QED BY <1>1, <1>2, <1>4, <2>1, <2>2
<1>9. Encodes(RAW1, Packed(tile), tile, old)
  BY <1>2, <1>3, <1>7 DEF Encodes
<1>10. Encodes(XOR_RAW1, Packed(c), tile, old)
  BY <1>2, <1>3, <1>8 DEF Encodes
<1> QED BY <1>9, <1>10 DEF c

\* What the analyzer makes of bytes of which the first says how many follow.
LEMMA SkippedIs ==
  ASSUME NEW data \in Seq(Nat), NEW pos \in Nat, NEW end, pos < Len(data), end <= Len(data),
         ByteAt(data, pos) \in Nat
  PROVE  /\ pos + 1 + ByteAt(data, pos) = end =>
              /\ Skipped(RLE1, data, pos) = [ok |-> TRUE, pos |-> end]
              /\ Skipped(XOR_RLE1, data, pos) = [ok |-> TRUE, pos |-> end]
              /\ ByteAt(data, pos) <= TilePixels => Skipped(XOR_BITS1, data, pos) = [ok |-> TRUE, pos |-> end]
         /\ pos + 1 + (ByteAt(data, pos) + 1) \div 2 = end /\ ByteAt(data, pos) <= TilePixels =>
              Skipped(XOR_NIBS1, data, pos) = [ok |-> TRUE, pos |-> end]
<1> DEFINE n == ByteAt(data, pos)
<1>1. ~(pos >= Len(data)) /\ n \in Nat
  OBVIOUS
<1> HIDE DEF n
<1>2. ASSUME NEW mode, mode = RLE1 \/ mode = XOR_RLE1 \/ mode = XOR_BITS1 \/ mode = XOR_NIBS1
      PROVE  Skipped(mode, data, pos) =
               [ok |-> /\ mode \in {XOR_BITS1, XOR_NIBS1} => n <= TilePixels
                       /\ pos + 1 + PayloadLength(mode, n) <= Len(data),
                pos |-> pos + 1 + PayloadLength(mode, n)]
  <2>1. mode \notin {SOLID0, SOLID1} /\ mode \notin {RAW1, XOR_RAW1}
    BY <1>2 DEF RLE1, XOR_RLE1, XOR_BITS1, XOR_NIBS1, SOLID0, SOLID1, RAW1, XOR_RAW1
  <2> QED BY <1>1, <2>1 DEF Skipped, n
<1>3. PayloadLength(RLE1, n) = n /\ PayloadLength(XOR_RLE1, n) = n /\ PayloadLength(XOR_BITS1, n) = n
      /\ PayloadLength(XOR_NIBS1, n) = (n + 1) \div 2
  BY DEF PayloadLength, RLE1, XOR_RLE1, XOR_BITS1, XOR_NIBS1
<1>4. RLE1 \notin {XOR_BITS1, XOR_NIBS1} /\ XOR_RLE1 \notin {XOR_BITS1, XOR_NIBS1}
  BY DEF RLE1, XOR_RLE1, XOR_BITS1, XOR_NIBS1
<1>5. ASSUME pos + 1 + n = end
      PROVE  /\ Skipped(RLE1, data, pos) = [ok |-> TRUE, pos |-> end]
             /\ Skipped(XOR_RLE1, data, pos) = [ok |-> TRUE, pos |-> end]
             /\ n <= TilePixels => Skipped(XOR_BITS1, data, pos) = [ok |-> TRUE, pos |-> end]
  <2>1. (/\ RLE1 \in {XOR_BITS1, XOR_NIBS1} => n <= TilePixels
         /\ pos + 1 + PayloadLength(RLE1, n) <= Len(data)) = TRUE
    BY <1>3, <1>4, <1>5
  <2>2. (/\ XOR_RLE1 \in {XOR_BITS1, XOR_NIBS1} => n <= TilePixels
         /\ pos + 1 + PayloadLength(XOR_RLE1, n) <= Len(data)) = TRUE
    BY <1>3, <1>4, <1>5
  <2>3. n <= TilePixels =>
        (/\ XOR_BITS1 \in {XOR_BITS1, XOR_NIBS1} => n <= TilePixels
         /\ pos + 1 + PayloadLength(XOR_BITS1, n) <= Len(data)) = TRUE
    BY <1>3, <1>5
  <2> QED BY <1>2, <1>3, <1>5, <2>1, <2>2, <2>3
<1>6. ASSUME pos + 1 + (n + 1) \div 2 = end, n <= TilePixels
      PROVE  Skipped(XOR_NIBS1, data, pos) = [ok |-> TRUE, pos |-> end]
  <2>1. (/\ XOR_NIBS1 \in {XOR_BITS1, XOR_NIBS1} => n <= TilePixels
         /\ pos + 1 + PayloadLength(XOR_NIBS1, n) <= Len(data)) = TRUE
    BY <1>3, <1>6
  <2> QED BY <1>2, <1>3, <1>6, <2>1
<1> QED BY <1>5, <1>6 DEF n

\* The runs of a tile, or of its difference, encode it.
LEMMA RleEncodes ==
  ASSUME TileAssumption, NEW tile \in OneBit, NEW old \in OneBit
  PROVE  LET rle == encode_tile_rle(tile)
             xrle == encode_tile_rle(Xor(tile, old))
         IN /\ rle \in Seq(Nat) /\ xrle \in Seq(Nat)
            /\ Encodes(RLE1, <<Len(rle)>> \o rle, tile, old)
            /\ Encodes(XOR_RLE1, <<Len(xrle)>> \o xrle, tile, old)
<1> DEFINE c == Xor(tile, old)
<1>1. c \in OneBit /\ Xor(old, c) = tile
  BY XorBack
<1> HIDE DEF c
<1>2. RLE1 \in Nat /\ XOR_RLE1 \in Nat
  BY DEF RLE1, XOR_RLE1
<1>3. ASSUME NEW t \in OneBit
      PROVE  LET rle == encode_tile_rle(t)
             IN /\ rle \in Seq(Nat) /\ <<Len(rle)>> \o rle \in Seq(Nat)
                /\ \A data \in Seq(Nat), pos \in Nat :
                     Holds(data, pos, <<Len(rle)>> \o rle) =>
                       LET end == pos + Len(<<Len(rle)>> \o rle)
                       IN /\ set_tile_rle(old, data, pos) = Decoded(t, end)
                          /\ xor_tile_rle(old, data, pos) = Decoded(Xor(old, t), end)
                          /\ Skipped(RLE1, data, pos) = [ok |-> TRUE, pos |-> end]
                          /\ Skipped(XOR_RLE1, data, pos) = [ok |-> TRUE, pos |-> end]
  <2> DEFINE rle == encode_tile_rle(t)
             n == Len(rle)
             bytes == <<n>> \o rle
  <2>1. rle \in Seq(Nat) /\ n \in Nat
    BY RunsBack
  <2>2. ASSUME NEW data \in Seq(Nat), NEW pos \in Nat, Holds(data, pos, bytes)
        PROVE  /\ set_tile_rle(old, data, pos) = Decoded(t, pos + Len(bytes))
               /\ xor_tile_rle(old, data, pos) = Decoded(Xor(old, t), pos + Len(bytes))
    BY <2>2, RleBack
  <2> HIDE DEF rle
  <2>3. bytes \in Seq(Nat)
    BY <2>1
  <2>4. ASSUME NEW data \in Seq(Nat), NEW pos \in Nat, Holds(data, pos, bytes)
        PROVE  /\ Skipped(RLE1, data, pos) = [ok |-> TRUE, pos |-> pos + Len(bytes)]
               /\ Skipped(XOR_RLE1, data, pos) = [ok |-> TRUE, pos |-> pos + Len(bytes)]
    <3> HIDE DEF n
    <3>1. pos < Len(data) /\ ByteAt(data, pos) = n /\ pos + 1 + Len(rle) <= Len(data) /\ Len(bytes) = 1 + Len(rle)
      BY <2>1, <2>4, HoldsHead
    <3> HIDE DEF bytes
    <3>2. pos + 1 + n = pos + Len(bytes) /\ pos + Len(bytes) <= Len(data) /\ ByteAt(data, pos) \in Nat
      BY <2>1, <3>1 DEF n
    <3> QED BY <3>1, <3>2, SkippedIs
  <2> QED BY <2>1, <2>2, <2>3, <2>4 DEF rle
<1>4. ASSUME NEW data \in Seq(Nat), NEW pos \in Nat
      PROVE  /\ DecodeTile(old, RLE1, data, pos) = set_tile_rle(old, data, pos)
             /\ DecodeTile(old, XOR_RLE1, data, pos) = xor_tile_rle(old, data, pos)
             /\ ~CutShort(RLE1, data, pos) /\ ~CutShort(XOR_RLE1, data, pos)
  <2>1. DecodeTile(old, RLE1, data, pos) = set_tile_rle(old, data, pos)
    BY DecodeTileIs
  <2>2. DecodeTile(old, XOR_RLE1, data, pos) = xor_tile_rle(old, data, pos)
    BY DecodeTileIs
  <2>3. ~CutShort(RLE1, data, pos) /\ ~CutShort(XOR_RLE1, data, pos)
    BY DEF CutShort, RAW1, XOR_RAW1, RLE1, XOR_RLE1
  <2> QED BY <2>1, <2>2, <2>3
<1>5. LET rle == encode_tile_rle(tile) IN rle \in Seq(Nat) /\ Encodes(RLE1, <<Len(rle)>> \o rle, tile, old)
  BY <1>2, <1>3, <1>4 DEF Encodes
<1>6. LET xrle == encode_tile_rle(c) IN xrle \in Seq(Nat) /\ Encodes(XOR_RLE1, <<Len(xrle)>> \o xrle, tile, old)
  BY <1>1, <1>2, <1>3, <1>4 DEF Encodes
<1> QED BY <1>5, <1>6 DEF c

\* The places of the difference, as bytes or as gaps, encode a tile.
LEMMA PlacesEncode ==
  ASSUME TileAssumption, NEW tile \in OneBit, NEW old \in OneBit
  PROVE  LET c == Xor(tile, old)
         IN /\ Encodes(XOR_BITS1, encode_xor_bits(c), tile, old)
            /\ encode_xor_nibbles(c) # <<>> => Encodes(XOR_NIBS1, encode_xor_nibbles(c), tile, old)
            /\ encode_xor_nibbles(c) \in Seq(Nat)
<1> DEFINE c == Xor(tile, old)
<1>1. c \in OneBit /\ Xor(old, c) = tile
  BY XorBack
<1> HIDE DEF c
<1>2. XOR_BITS1 \in Nat /\ XOR_NIBS1 \in Nat
  BY DEF XOR_BITS1, XOR_NIBS1
<1>3. ASSUME NEW data \in Seq(Nat), NEW pos \in Nat
      PROVE  /\ DecodeTile(old, XOR_BITS1, data, pos) = xor_tile_bits(old, data, pos)
             /\ DecodeTile(old, XOR_NIBS1, data, pos) = xor_tile_nibbles(old, data, pos)
             /\ ~CutShort(XOR_BITS1, data, pos) /\ ~CutShort(XOR_NIBS1, data, pos)
  <2>1. DecodeTile(old, XOR_BITS1, data, pos) = xor_tile_bits(old, data, pos)
    BY DecodeTileIs
  <2>2. DecodeTile(old, XOR_NIBS1, data, pos) = xor_tile_nibbles(old, data, pos)
    BY DecodeTileIs
  <2>3. ~CutShort(XOR_BITS1, data, pos) /\ ~CutShort(XOR_NIBS1, data, pos)
    BY DEF CutShort, RAW1, XOR_RAW1, XOR_BITS1, XOR_NIBS1
  <2> QED BY <2>1, <2>2, <2>3
<1>4. encode_xor_bits(c) \in Seq(Nat)
  <2>1. Ones(c) \in Seq(Nat)
    BY GapsAre
  <2> DEFINE o == Ones(c)
             l == <<Len(o)>>
  <2> HIDE DEF o
  <2>2. Len(o) \in Nat /\ l \in Seq(Nat)
    BY <2>1 DEF o
  <2> HIDE DEF l
  <2>3. l \o o \in Seq(Nat)
    BY <2>1, <2>2 DEF o
  <2> QED BY <2>3 DEF encode_xor_bits, o, l
<1>5. ASSUME NEW data \in Seq(Nat), NEW pos \in Nat, Holds(data, pos, encode_xor_bits(c))
      PROVE  /\ DecodeTile(old, XOR_BITS1, data, pos) = Decoded(tile, pos + Len(encode_xor_bits(c)))
             /\ ~CutShort(XOR_BITS1, data, pos)
             /\ Skipped(XOR_BITS1, data, pos) = [ok |-> TRUE, pos |-> pos + Len(encode_xor_bits(c))]
  <2>1. /\ xor_tile_bits(old, data, pos) = Decoded(Xor(old, c), pos + Len(encode_xor_bits(c)))
        /\ ByteAt(data, pos) <= TilePixels /\ pos < Len(data) /\ ByteAt(data, pos) \in Nat
        /\ pos + 1 + ByteAt(data, pos) = pos + Len(encode_xor_bits(c))
        /\ pos + Len(encode_xor_bits(c)) <= Len(data)
    BY <1>1, <1>5, BitsBack
  <2>2. Skipped(XOR_BITS1, data, pos) = [ok |-> TRUE, pos |-> pos + Len(encode_xor_bits(c))]
    BY <2>1, SkippedIs
  <2> QED BY <1>1, <1>3, <2>1, <2>2
<1>6. /\ encode_xor_nibbles(c) \in Seq(Nat)
      /\ encode_xor_nibbles(c) # <<>> =>
              \A data \in Seq(Nat), pos \in Nat :
                Holds(data, pos, encode_xor_nibbles(c)) =>
                  /\ xor_tile_nibbles(old, data, pos) = Decoded(Xor(old, c), pos + Len(encode_xor_nibbles(c)))
                  /\ ByteAt(data, pos) \in Nat /\ ByteAt(data, pos) <= TilePixels /\ pos < Len(data)
                  /\ pos + 1 + (ByteAt(data, pos) + 1) \div 2 = pos + Len(encode_xor_nibbles(c))
                  /\ pos + Len(encode_xor_nibbles(c)) <= Len(data)
  BY <1>1, NibblesBack
<1>7. ASSUME encode_xor_nibbles(c) # <<>>, NEW data \in Seq(Nat), NEW pos \in Nat,
             Holds(data, pos, encode_xor_nibbles(c))
      PROVE  /\ DecodeTile(old, XOR_NIBS1, data, pos) = Decoded(tile, pos + Len(encode_xor_nibbles(c)))
             /\ ~CutShort(XOR_NIBS1, data, pos)
             /\ Skipped(XOR_NIBS1, data, pos) = [ok |-> TRUE, pos |-> pos + Len(encode_xor_nibbles(c))]
  <2>1. /\ xor_tile_nibbles(old, data, pos) = Decoded(Xor(old, c), pos + Len(encode_xor_nibbles(c)))
        /\ ByteAt(data, pos) \in Nat /\ ByteAt(data, pos) <= TilePixels /\ pos < Len(data)
        /\ pos + 1 + (ByteAt(data, pos) + 1) \div 2 = pos + Len(encode_xor_nibbles(c))
        /\ pos + Len(encode_xor_nibbles(c)) <= Len(data)
    BY <1>6, <1>7
  <2>2. Skipped(XOR_NIBS1, data, pos) = [ok |-> TRUE, pos |-> pos + Len(encode_xor_nibbles(c))]
    BY <2>1, SkippedIs
  <2> QED BY <1>1, <1>3, <2>1, <2>2
<1>8. Encodes(XOR_BITS1, encode_xor_bits(c), tile, old)
  BY <1>2, <1>4, <1>5 DEF Encodes
<1>9. encode_xor_nibbles(c) # <<>> => Encodes(XOR_NIBS1, encode_xor_nibbles(c), tile, old)
  BY <1>2, <1>6, <1>7 DEF Encodes
<1> QED BY <1>6, <1>8, <1>9 DEF c

\* Whatever encoding the encoder finds shortest, the player gets the tile back
\* from it over the tile it had, and the analyzer steps over it.
THEOREM TileBack ==
  ASSUME TileAssumption, NEW tile \in OneBit, NEW old \in OneBit
  PROVE  Encodes(Encoding(tile, old).mode, Encoding(tile, old).bytes, tile, old)
<1> DEFINE c == Xor(tile, old)
           rle == encode_tile_rle(tile)
           xrle == encode_tile_rle(c)
           bits == encode_xor_bits(c)
           nibs == encode_xor_nibbles(c)
           code == Encoding(tile, old)
<1>1. /\ Solid(tile, 0) => Encodes(SOLID0, <<>>, tile, old)
      /\ Solid(tile, 1) => Encodes(SOLID1, <<>>, tile, old)
  BY SolidBack
<1>2. Encodes(RAW1, Packed(tile), tile, old) /\ Encodes(XOR_RAW1, Packed(c), tile, old)
  BY RawEncodes
<1>3. Encodes(RLE1, <<Len(rle)>> \o rle, tile, old) /\ Encodes(XOR_RLE1, <<Len(xrle)>> \o xrle, tile, old)
  BY RleEncodes
<1>4. Encodes(XOR_BITS1, bits, tile, old) /\ (nibs # <<>> => Encodes(XOR_NIBS1, nibs, tile, old))
  BY PlacesEncode
<1>5. code = Shortest(tile, c, rle, xrle, bits, nibs)
  BY DEF Encoding, Changed
<1> HIDE DEF c, rle, xrle, bits, nibs, code
<1>6. \/ Solid(tile, 0) /\ code = [mode |-> SOLID0, bytes |-> <<>>]
      \/ Solid(tile, 1) /\ code = [mode |-> SOLID1, bytes |-> <<>>]
      \/ nibs # <<>> /\ code = [mode |-> XOR_NIBS1, bytes |-> nibs]
      \/ code = [mode |-> XOR_BITS1, bytes |-> bits]
      \/ code = [mode |-> XOR_RLE1, bytes |-> <<Len(xrle)>> \o xrle]
      \/ code = [mode |-> RLE1, bytes |-> <<Len(rle)>> \o rle]
      \/ code = [mode |-> XOR_RAW1, bytes |-> Packed(c)]
      \/ code = [mode |-> RAW1, bytes |-> Packed(tile)]
  BY <1>5 DEF Shortest
<1>7. Encodes(code.mode, code.bytes, tile, old)
  <2>1. CASE Solid(tile, 0) /\ code = [mode |-> SOLID0, bytes |-> <<>>]
    BY <1>1, <2>1
  <2>2. CASE Solid(tile, 1) /\ code = [mode |-> SOLID1, bytes |-> <<>>]
    BY <1>1, <2>2
  <2>3. CASE nibs # <<>> /\ code = [mode |-> XOR_NIBS1, bytes |-> nibs]
    BY <1>4, <2>3
  <2>4. CASE code = [mode |-> XOR_BITS1, bytes |-> bits]
    BY <1>4, <2>4
  <2>5. CASE code = [mode |-> XOR_RLE1, bytes |-> <<Len(xrle)>> \o xrle]
    BY <1>3, <2>5
  <2>6. CASE code = [mode |-> RLE1, bytes |-> <<Len(rle)>> \o rle]
    BY <1>3, <2>6
  <2>7. CASE code = [mode |-> XOR_RAW1, bytes |-> Packed(c)]
    BY <1>2, <2>7
  <2>8. CASE code = [mode |-> RAW1, bytes |-> Packed(tile)]
    BY <1>2, <2>8
  <2> QED BY <1>6, <2>1, <2>2, <2>3, <2>4, <2>5, <2>6, <2>7, <2>8
<1> QED BY <1>7 DEF code

(***************************************************************************)
(* The pixels of a frame, by tiles.                                        *)
(***************************************************************************)
LEMMA DigitsAre ==
  ASSUME NEW x \in Nat, NEW n \in Nat, x < n, NEW w \in Nat, NEW s \in Nat, s < w
  PROVE  x * w + s \in Nat /\ x * w + s < n * w /\ (x * w + s) \div w = x /\ (x * w + s) % w = s
<1>1. x * w \in Nat /\ x * w + w <= n * w /\ n * w \in Nat
  BY ProductBelow
<1>2. x * w + s \in Nat /\ x * w + s < n * w
  <2> DEFINE y == x * w
             z == n * w
  <2>1. y \in Nat /\ z \in Nat /\ y + w <= z
    BY <1>1
  <2> HIDE DEF y, z
  <2>2. y + s \in Nat /\ y + s < z
    BY <2>1
  <2> QED BY <2>2 DEF y, z
<1>3. w \in Nat \ {0} /\ s \in 0 .. w - 1 /\ x \in Int /\ x * w + s \in Int /\ x * w + s = w * x + s
  <2>1. x * w = w * x
    OBVIOUS
  <2> QED BY <1>2, <2>1
<1> DEFINE v == x * w + s
<1> HIDE DEF v
<1>4. v \in Int /\ v = w * x + s
  BY <1>3 DEF v
<1>5. v \div w = x /\ v % w = s
  BY ONLY <1>3, <1>4, QuotientIs
<1> QED BY <1>2, <1>5 DEF v

\* A number is a quotient and a remainder, each within its bound.
LEMMA SplitIs ==
  ASSUME NEW x \in Nat, NEW n \in Nat, NEW w \in Nat, w > 0, x < n * w
  PROVE  /\ x \div w \in Nat /\ x \div w < n /\ x % w \in Nat /\ x % w < w
         /\ x = (x \div w) * w + (x % w)
<1> DEFINE q == x \div w
           r == x % w
<1>1. r \in 0 .. w - 1 /\ q \in Nat /\ x = w * q + r
  <2>1. w \in Nat \ {0} /\ x \in Int /\ x >= 0
    OBVIOUS
  <2>2. r \in 0 .. w - 1 /\ q \in Int /\ x = w * q + r /\ (x >= 0 => q \in Nat)
    BY <2>1, RemainderOf
  <2> QED BY <2>1, <2>2
<1> HIDE DEF q, r
<1>2. w * q = q * w /\ q * w \in Nat /\ r \in Nat /\ r < w
  BY <1>1
<1>3. x = q * w + r /\ q * w < n * w
  <2> DEFINE z == n * w
             y == q * w
  <2>1. z \in Nat /\ x < z
    BY ProductBelow
  <2>2. y \in Nat /\ x = y + r
    BY <1>1, <1>2
  <2> HIDE DEF y, z
  <2>3. y < z
    BY <1>2, <2>1, <2>2
  <2> QED BY <2>2, <2>3 DEF y, z
<1>4. q < n
  BY <1>1, <1>3, ProductBelow
<1> QED BY <1>1, <1>2, <1>3, <1>4 DEF q, r

\* The row of tiles, the column of tiles, and the row and column within a tile.
LEMMA CoordinatesAre ==
  ASSUME TileAssumption, NEW a \in Nat, a < TilesY, NEW r \in Nat, r < TileH, NEW b \in Nat, b < TilesX,
         NEW s \in Nat, s < TileW, NEW t, t = a * TilesX + b, NEW i, i = r * TileW + s,
         NEW p, p = (a * TileH + r) * (TilesX * TileW) + (b * TileW + s)
  PROVE  /\ t \in Tiles /\ i \in 0 .. TilePixels - 1 /\ p \in FramePixels
         /\ PixelOf(t, i) = p /\ TileAt(p) = t /\ PlaceIn(p) = i
<1> DEFINE X == TilesX
           Y == TilesY
           W == TileW
           H == TileH
           XW == X * W
           m == b * W + s
           q == a * H + r
<1>1. X \in Nat /\ Y \in Nat /\ W \in Nat /\ H \in Nat /\ X > 0 /\ Y > 0 /\ W > 0 /\ H > 0
  BY TileNumbers
<1> HIDE DEF X, Y, W, H
<1>2. a < Y /\ r < H /\ b < X /\ s < W
  BY DEF X, Y, W, H
<1>3. t \in Nat /\ t < Y * X /\ t \div X = a /\ t % X = b
  <2>1. t = a * X + b
    BY DEF X
  <2>2. a * X + b \in Nat /\ a * X + b < Y * X /\ (a * X + b) \div X = a /\ (a * X + b) % X = b
    BY <1>1, <1>2, DigitsAre
  <2> QED BY <2>1, <2>2
<1>4. i \in Nat /\ i < H * W /\ i \div W = r /\ i % W = s
  <2>1. i = r * W + s
    BY DEF W
  <2>2. r * W + s \in Nat /\ r * W + s < H * W /\ (r * W + s) \div W = r /\ (r * W + s) % W = s
    BY <1>1, <1>2, DigitsAre
  <2> QED BY <2>1, <2>2
<1>5. m \in Nat /\ m < XW /\ m \div W = b /\ m % W = s
  BY <1>1, <1>2, DigitsAre
<1>6. q \in Nat /\ q < Y * H /\ q % H = r
  BY <1>1, <1>2, DigitsAre
<1>7. XW \in Nat /\ XW > 0
  <2>1. 0 * W = 0 /\ 0 < X /\ 0 \in Nat
    BY <1>1
  <2>2. X * W \in Nat /\ X <= X * W
    BY <1>1, ProductBelow
  <2> QED BY <1>1, <2>2
<1> HIDE DEF m, q, XW
<1>8. p = q * XW + m
  BY DEF q, XW, m, X, W, H
<1>9. p \in Nat /\ p < (Y * H) * XW /\ p \div XW = q /\ p % XW = m
  <2>1. Y * H \in Nat
    BY <1>1, ProductBelow
  <2> DEFINE n == Y * H
  <2> HIDE DEF n
  <2>2. n \in Nat /\ q < n
    BY <1>6, <2>1 DEF n
  <2>3. q * XW + m \in Nat /\ q * XW + m < n * XW /\ (q * XW + m) \div XW = q /\ (q * XW + m) % XW = m
    BY <1>5, <1>6, <1>7, <2>2, DigitsAre
  <2> QED BY <1>8, <2>3 DEF n
<1>10. p \div (XW * H) = a
  <2> DEFINE w == H * XW
             l == r * XW + m
  <2>1. l \in Nat /\ l < w
    BY <1>1, <1>2, <1>5, <1>7, DigitsAre
  <2>2. w \in Nat /\ XW * H = w
    BY <1>1, <1>7, ProductBelow
  <2>3. p = a * w + l
    <3>1. (a * H + r) * XW + m = a * (H * XW) + (r * XW + m)
      BY <1>1, <1>5, <1>7
    <3> QED BY <1>8, <3>1 DEF q
  <2> HIDE DEF w, l
  <2>4. (a * w + l) \div w = a
    BY <1>1, <1>2, <2>1, <2>2, DigitsAre
  <2> QED BY <2>2, <2>3, <2>4
<1>11. p % W = s
  <2> DEFINE k == q * X + b
  <2>1. k \in Nat
    <3>1. q * X \in Nat
      BY <1>1, <1>6, ProductBelow
    <3> DEFINE z == q * X
    <3> HIDE DEF z
    <3>2. z + b \in Nat
      BY <3>1 DEF z
    <3> QED BY <3>2 DEF z
  <2>2. p = k * W + s
    <3>1. q * (X * W) + (b * W + s) = (q * X + b) * W + s
      BY <1>1, <1>6
    <3> QED BY <1>8, <3>1 DEF XW, m
  <2> HIDE DEF k
  <2>3. k < k + 1 /\ k + 1 \in Nat
    BY <2>1
  <2>4. (k * W + s) % W = s
    BY <1>1, <1>2, <2>1, <2>3, DigitsAre
  <2> QED BY <2>2, <2>4
<1>12. TileAt(p) = t /\ PlaceIn(p) = i
  <2>1. TileAt(p) = (p \div (X * W * H)) * X + (p % (X * W)) \div W
    BY DEF TileAt, X, W, H
  <2>2. PlaceIn(p) = ((p \div (X * W)) % H) * W + (p % W)
    BY DEF PlaceIn, X, W, H
  <2>3. TileAt(p) = a * X + b
    BY <1>5, <1>9, <1>10, <2>1 DEF XW
  <2>4. PlaceIn(p) = r * W + s
    BY <1>6, <1>9, <1>11, <2>2 DEF XW
  <2> QED BY <2>3, <2>4 DEF X, W
<1>13. PixelOf(t, i) = p
  <2>1. PixelOf(t, i) = ((t \div X) * H + i \div W) * (X * W) + (t % X) * W + (i % W)
    BY DEF PixelOf, X, W, H
  <2>2. PixelOf(t, i) = (a * H + r) * (X * W) + b * W + s
    BY <1>3, <1>4, <2>1
  <2>3. (a * H + r) * (X * W) + b * W + s = q * XW + m
    <3> DEFINE y == b * W
    <3>1. y \in Nat
      BY <1>1, ProductBelow
    <3> DEFINE z == q * XW
    <3>2. z \in Nat
      BY <1>6, <1>7, ProductBelow
    <3> HIDE DEF y, z
    <3>3. z + y + s = z + (y + s)
      BY <3>1, <3>2
    <3> QED BY <3>3 DEF y, z, q, m, XW
  <2> QED BY <1>8, <2>2, <2>3
<1>14. t \in Tiles
  <2>1. TileCount = Y * X
    BY <1>1 DEF TileCount, X, Y
  <2>2. TileCount \in Nat
    BY TileNumbers
  <2> QED BY <1>3, <2>1, <2>2 DEF Tiles
<1>15. i \in 0 .. TilePixels - 1
  <2>1. TilePixels = H * W
    BY <1>1 DEF TilePixels, H, W
  <2>2. TilePixels \in Nat
    BY TileNumbers
  <2> QED BY <1>4, <2>1, <2>2
<1>16. p \in FramePixels
  <2>1. TileCount * TilePixels = (Y * H) * XW
    BY <1>1 DEF TileCount, TilePixels, XW, X, Y, W, H
  <2>2. TileCount * TilePixels \in Nat
    BY TileNumbers, ProductBelow
  <2> DEFINE z == TileCount * TilePixels
  <2> HIDE DEF z
  <2>3. z \in Nat /\ p \in Nat /\ p < z
    BY <1>9, <2>1, <2>2 DEF z
  <2>4. p \in 0 .. z - 1
    BY <2>3
  <2> QED BY <2>4 DEF FramePixels, z
<1> QED BY <1>12, <1>13, <1>14, <1>15, <1>16

\* A pixel of a tile is on the frame, and the frame knows its tile and its
\* place there.
LEMMA PixelIs ==
  ASSUME TileAssumption, NEW t \in Tiles, NEW i \in 0 .. TilePixels - 1
  PROVE  PixelOf(t, i) \in FramePixels /\ TileAt(PixelOf(t, i)) = t /\ PlaceIn(PixelOf(t, i)) = i
<1>1. TilesX \in Nat /\ TilesX > 0 /\ TilesY \in Nat /\ TileW \in Nat /\ TileW > 0 /\ TileH \in Nat
      /\ TileCount \in Nat /\ TilePixels \in Nat
  BY TileNumbers
<1>2. t \in Nat /\ t < TileCount /\ i \in Nat /\ i < TilePixels
  BY <1>1 DEF Tiles
<1>3. TileCount = TilesY * TilesX /\ TilePixels = TileH * TileW
  BY <1>1 DEF TileCount, TilePixels
<1> DEFINE a == t \div TilesX
           b == t % TilesX
           r == i \div TileW
           s == i % TileW
<1>4. a \in Nat /\ a < TilesY /\ b \in Nat /\ b < TilesX /\ t = a * TilesX + b
  BY <1>1, <1>2, <1>3, SplitIs
<1>5. r \in Nat /\ r < TileH /\ s \in Nat /\ s < TileW /\ i = r * TileW + s
  BY <1>1, <1>2, <1>3, SplitIs
<1> HIDE DEF a, b, r, s
<1> DEFINE p == (a * TileH + r) * (TilesX * TileW) + (b * TileW + s)
<1> HIDE DEF p
<1>6. p \in FramePixels /\ PixelOf(t, i) = p /\ TileAt(p) = t /\ PlaceIn(p) = i
  <2>1. p = (a * TileH + r) * (TilesX * TileW) + (b * TileW + s)
    BY DEF p
  <2> QED BY <1>4, <1>5, <2>1, CoordinatesAre
<1> QED BY <1>6

\* Every pixel of the frame is a pixel of a tile.
LEMMA PlaceIs ==
  ASSUME TileAssumption, NEW p \in FramePixels
  PROVE  TileAt(p) \in Tiles /\ PlaceIn(p) \in 0 .. TilePixels - 1 /\ PixelOf(TileAt(p), PlaceIn(p)) = p
<1> DEFINE X == TilesX
           Y == TilesY
           W == TileW
           H == TileH
           XW == X * W
           n == Y * H
           q == p \div XW
           m == p % XW
           a == q \div H
           r == q % H
           b == m \div W
           s == m % W
<1>1. X \in Nat /\ Y \in Nat /\ W \in Nat /\ H \in Nat /\ X > 0 /\ Y > 0 /\ W > 0 /\ H > 0
      /\ TileCount \in Nat /\ TilePixels \in Nat
  BY TileNumbers
<1>2. XW \in Nat /\ XW > 0 /\ n \in Nat
  <2>1. X * W \in Nat /\ X <= X * W /\ Y * H \in Nat
    BY <1>1, ProductBelow
  <2> QED BY <1>1, <2>1
<1>3. p \in Nat /\ p < n * XW
  <2>1. TileCount * TilePixels = n * XW
    BY <1>1 DEF TileCount, TilePixels
  <2>2. n * XW \in Nat
    BY <1>2, ProductBelow
  <2> DEFINE z == n * XW
  <2> HIDE DEF z
  <2>3. z \in Nat /\ p \in 0 .. z - 1
    BY <2>1, <2>2 DEF FramePixels, z
  <2>4. p \in Nat /\ p < z
    BY <2>3
  <2> QED BY <2>4 DEF z
<1> HIDE DEF XW, n
<1>4. q \in Nat /\ q < n /\ m \in Nat /\ m < XW /\ p = q * XW + m
  BY <1>2, <1>3, SplitIs
<1> HIDE DEF q, m
<1>5. a \in Nat /\ a < Y /\ r \in Nat /\ r < H /\ q = a * H + r
  BY <1>1, <1>4, SplitIs DEF n
<1>6. b \in Nat /\ b < X /\ s \in Nat /\ s < W /\ m = b * W + s
  BY <1>1, <1>4, SplitIs DEF XW
<1> HIDE DEF a, b, r, s
<1> DEFINE t == a * X + b
           i == r * W + s
<1> HIDE DEF t, i
<1>7. p = (a * H + r) * (X * W) + (b * W + s) /\ t = a * X + b /\ i = r * W + s
  BY <1>4, <1>5, <1>6 DEF XW, t, i
<1>8. t \in Tiles /\ i \in 0 .. TilePixels - 1 /\ PixelOf(t, i) = p /\ TileAt(p) = t /\ PlaceIn(p) = i
  BY <1>5, <1>6, <1>7, CoordinatesAre
<1> QED BY <1>8

\* Bytes and bytes are bytes.
LEMMA JoinIs ==
  ASSUME NEW a \in Seq(Nat), NEW b \in Seq(Nat)
  PROVE  a \o b \in Seq(Nat) /\ Len(a \o b) = Len(a) + Len(b)
OBVIOUS

\* Frames and tiles of pixels of some kind.
FramesOf(A) == [FramePixels -> A]
TilesOf(A) == [0 .. TilePixels - 1 -> A]

\* A tile put into a frame is there, and the others are as they were.
LEMMA PutIs ==
  ASSUME TileAssumption, NEW A, NEW frame \in FramesOf(A), NEW t \in Tiles, NEW tile \in TilesOf(A)
  PROVE  /\ Put(frame, t, tile) \in FramesOf(A)
         /\ TileOf(Put(frame, t, tile), t) = tile
         /\ \A u \in Tiles : u # t => TileOf(Put(frame, t, tile), u) = TileOf(frame, u)
<1> DEFINE f == Put(frame, t, tile)
<1>0. frame \in [FramePixels -> A] /\ tile \in [0 .. TilePixels - 1 -> A]
  BY DEF FramesOf, TilesOf
<1>1. f = [p \in FramePixels |-> IF TileAt(p) = t THEN tile[PlaceIn(p)] ELSE frame[p]]
  BY DEF Put
<1>2. f \in FramesOf(A)
  <2>1. ASSUME NEW p \in FramePixels PROVE (IF TileAt(p) = t THEN tile[PlaceIn(p)] ELSE frame[p]) \in A
    <3>1. PlaceIn(p) \in 0 .. TilePixels - 1
      BY PlaceIs
    <3> QED BY <1>0, <3>1
  <2> QED BY <1>1, <2>1 DEF FramesOf
<1>3. ASSUME NEW u \in Tiles, NEW i \in 0 .. TilePixels - 1
      PROVE  f[PixelOf(u, i)] = IF u = t THEN tile[i] ELSE frame[PixelOf(u, i)]
  <2>1. PixelOf(u, i) \in FramePixels /\ TileAt(PixelOf(u, i)) = u /\ PlaceIn(PixelOf(u, i)) = i
    BY PixelIs
  <2> QED BY <1>1, <2>1
<1> HIDE DEF f
<1>4. TileOf(f, t) = tile
  <2>1. tile = [i \in 0 .. TilePixels - 1 |-> tile[i]]
    BY <1>0
  <2>2. TileOf(f, t) = [i \in 0 .. TilePixels - 1 |-> f[PixelOf(t, i)]]
    BY DEF TileOf
  <2>3. \A i \in 0 .. TilePixels - 1 : f[PixelOf(t, i)] = tile[i]
    BY <1>3
  <2> QED BY <2>1, <2>2, <2>3
<1>5. ASSUME NEW u \in Tiles, u # t PROVE TileOf(f, u) = TileOf(frame, u)
  <2>1. \A i \in 0 .. TilePixels - 1 : f[PixelOf(u, i)] = frame[PixelOf(u, i)]
    BY <1>3, <1>5
  <2> QED BY <2>1 DEF TileOf
<1> QED BY <1>2, <1>4, <1>5 DEF f

\* A tile of a frame has pixels of the kind the frame has.
LEMMA TileOfIs ==
  ASSUME TileAssumption, NEW A, NEW frame \in [FramePixels -> A], NEW t \in Tiles
  PROVE  TileOf(frame, t) \in [0 .. TilePixels - 1 -> A]
<1>1. \A i \in 0 .. TilePixels - 1 : frame[PixelOf(t, i)] \in A
  BY PixelIs
<1> QED BY <1>1 DEF TileOf

\* Frames of which all tiles are equal are equal.
LEMMA FramesEqual ==
  ASSUME TileAssumption, NEW A, NEW f \in [FramePixels -> A], NEW g \in [FramePixels -> A],
         \A t \in Tiles : TileOf(f, t) = TileOf(g, t)
  PROVE  f = g
<1>1. ASSUME NEW p \in FramePixels PROVE f[p] = g[p]
  <2> DEFINE t == TileAt(p)
             i == PlaceIn(p)
  <2>1. t \in Tiles /\ i \in 0 .. TilePixels - 1 /\ PixelOf(t, i) = p
    BY PlaceIs
  <2> HIDE DEF t, i
  <2>2. TileOf(f, t) = TileOf(g, t)
    BY <2>1
  <2>3. TileOf(f, t)[i] = f[PixelOf(t, i)] /\ TileOf(g, t)[i] = g[PixelOf(t, i)]
    BY <2>1 DEF TileOf
  <2> QED BY <2>1, <2>2, <2>3
<1> QED BY <1>1

\* What a command and its bytes add to a frame.
LEMMA AddedIs ==
  ASSUME TileAssumption, NEW bytes \in Seq(Nat), NEW next \in Nat, NEW t \in Tiles, next <= t, NEW mode \in Nat,
         NEW more \in Seq(Nat), NEW data \in Seq(Nat),
         Holds(data, 0, bytes \o emit_tile_command(t, mode, next) \o more)
  PROVE  LET all == bytes \o emit_tile_command(t, mode, next) \o more
             start == Len(bytes) + Len(emit_tile_command(t, mode, next))
         IN /\ all \in Seq(Nat) /\ Holds(data, 0, bytes) /\ Len(bytes) \in Nat /\ Len(bytes) < Len(all)
            /\ Len(all) <= Len(data) /\ Len(all) = start + Len(more) /\ start \in Nat
            /\ Holds(data, start, more)
            /\ Command(data, Len(bytes), next) = [ok |-> TRUE, mode |-> mode, tile |-> t, pos |-> start]
<1> DEFINE c == emit_tile_command(t, mode, next)
           all == bytes \o c \o more
           l == Len(bytes)
           start == l + Len(c)
<1>1. t \in Nat /\ l \in Nat
  BY TileNumbers DEF Tiles
<1>2. /\ c \in Seq(Nat) /\ Len(c) \in Nat /\ Len(c) >= 1
      /\ Holds(data, l, c) => Command(data, l, next) = [ok |-> TRUE, mode |-> mode, tile |-> t, pos |-> l + Len(c)]
  BY <1>1, CommandIs
<1> HIDE DEF c
<1>3. bytes \o c \in Seq(Nat) /\ Len(bytes \o c) = start /\ start \in Nat
  BY <1>1, <1>2
<1>4. Holds(data, 0, (bytes \o c) \o more)
  BY DEF c
<1>5. Holds(data, 0, bytes \o c) /\ Holds(data, 0 + Len(bytes \o c), more)
  BY <1>3, <1>4, HoldsBoth
<1>6. Holds(data, 0, bytes) /\ Holds(data, 0 + Len(bytes), c)
  BY <1>2, <1>5, HoldsBoth
<1>7. 0 + Len(bytes \o c) = start /\ 0 + Len(bytes) = l
  BY <1>1, <1>3
<1>8. Holds(data, start, more) /\ Holds(data, l, c)
  BY <1>5, <1>6, <1>7
<1> DEFINE bc == bytes \o c
<1>9. all \in Seq(Nat) /\ Len(all) = start + Len(more)
  <2>1. bc \in Seq(Nat) /\ Len(bc) = start /\ all = bc \o more
    BY <1>3
  <2> HIDE DEF bc, all, start
  <2>2. bc \o more \in Seq(Nat) /\ Len(bc \o more) = Len(bc) + Len(more)
    BY <2>1, JoinIs
  <2> QED BY <2>1, <2>2, Zenon
<1>10. Len(all) <= Len(data) /\ l < Len(all)
  <2>1. 0 + Len(all) <= Len(data)
    BY <1>4 DEF Holds
  <2>2. Len(more) \in Nat /\ Len(all) \in Nat /\ Len(all) = l + Len(c) + Len(more)
    BY <1>9
  <2> HIDE DEF all, l
  <2> QED BY <1>1, <1>2, <2>1, <2>2
<1> QED BY <1>1, <1>2, <1>3, <1>6, <1>8, <1>9, <1>10 DEF c

\* The player and the analyzer where the encoder was after so many bytes.
PlayerAt(e, bits, lcd) ==
  [ok |-> TRUE, bits |-> bits, lcd |-> lcd, pos |-> Len(e.bytes), next |-> e.next, tiles |-> e.changed]
ParserAt(e) == [ok |-> TRUE, pos |-> Len(e.bytes), next |-> e.next, tiles |-> e.changed]

\* The player and the analyzer come with the command of the tile t from where
\* the encoder was to where it is.
Obeyed(e, f, t, frame, tile, data) ==
  LET c == Command(data, Len(e.bytes), e.next)
  IN /\ f.bytes \in Seq(Nat) /\ f.next = t + 1 /\ f.changed = e.changed + 1
     /\ Holds(data, 0, e.bytes) /\ Len(e.bytes) < Len(f.bytes) /\ Len(f.bytes) <= Len(data)
     /\ Obey(PlayerAt(e, frame, frame), data, c) = PlayerAt(f, Put(frame, t, tile), Put(frame, t, tile))
     /\ StepOver(ParserAt(e), data, c) = ParserAt(f)

\* The player puts the tile a command brings where the encoder had it, and
\* the analyzer steps over the command.
LEMMA TileObeyed ==
  ASSUME TileAssumption, kind = "PCV3", NEW e, e.bytes \in Seq(Nat), e.next \in Nat, e.changed \in Nat,
         NEW t \in Tiles, e.next <= t, NEW frame \in [FramePixels -> {0, 1}], NEW tile \in OneBit, NEW data \in Seq(Nat),
         Holds(data, 0, Emitted(e, t, Encoding(tile, TileOf(frame, t))).bytes)
  PROVE  Obeyed(e, Emitted(e, t, Encoding(tile, TileOf(frame, t))), t, frame, tile, data)
<1> DEFINE old == TileOf(frame, t)
           code == Encoding(tile, old)
           f == Emitted(e, t, code)
           cmd == emit_tile_command(t, code.mode, e.next)
           start == Len(e.bytes) + Len(cmd)
           c == Command(data, Len(e.bytes), e.next)
<1>1. old \in OneBit
  BY TileOfIs DEF OneBit
<1>2. Encodes(code.mode, code.bytes, tile, old)
  BY <1>1, TileBack
<1> HIDE DEF old, code
<1>3. code.mode \in Nat /\ code.bytes \in Seq(Nat)
  BY <1>2 DEF Encodes
<1>4. f = [bytes |-> e.bytes \o cmd \o code.bytes, next |-> t + 1, changed |-> e.changed + 1]
  BY DEF Emitted
<1>5. Holds(data, 0, e.bytes \o cmd \o code.bytes)
  <2>1. Holds(data, 0, f.bytes)
    BY DEF code, old
  <2> QED BY <1>4, <2>1
<1>6. /\ f.bytes \in Seq(Nat) /\ Holds(data, 0, e.bytes) /\ Len(e.bytes) < Len(f.bytes) /\ Len(f.bytes) <= Len(data)
      /\ Len(f.bytes) = start + Len(code.bytes) /\ start \in Nat /\ Holds(data, start, code.bytes)
      /\ c = [ok |-> TRUE, mode |-> code.mode, tile |-> t, pos |-> start]
  <2>1. f.bytes = e.bytes \o cmd \o code.bytes
    <3> HIDE DEF f, cmd
    <3> QED BY <1>4, Zenon
  <2>2. t \in Tiles /\ e.bytes \in Seq(Nat) /\ e.next \in Nat /\ e.next <= t
    OBVIOUS
  <2> DEFINE b == e.bytes
             n == e.next
             m == code.mode
             o == code.bytes
  <2> HIDE DEF f, b, n, m, o
  <2>3. /\ b \in Seq(Nat) /\ n \in Nat /\ n <= t /\ m \in Nat /\ o \in Seq(Nat)
        /\ Holds(data, 0, b \o emit_tile_command(t, m, n) \o o)
    BY <1>3, <1>5, <2>2 DEF b, n, m, o
  <2>4. LET all == b \o emit_tile_command(t, m, n) \o o
            from == Len(b) + Len(emit_tile_command(t, m, n))
         IN /\ all \in Seq(Nat) /\ Holds(data, 0, b) /\ Len(b) \in Nat /\ Len(b) < Len(all)
            /\ Len(all) <= Len(data) /\ Len(all) = from + Len(o) /\ from \in Nat
            /\ Holds(data, from, o)
            /\ Command(data, Len(b), n) = [ok |-> TRUE, mode |-> m, tile |-> t, pos |-> from]
    BY <2>3, AddedIs
  <2>5. f.bytes = b \o emit_tile_command(t, m, n) \o o
    BY <2>1 DEF b, n, m, o
  <2>6. start = Len(b) + Len(emit_tile_command(t, m, n)) /\ c = Command(data, Len(b), n)
    BY DEF b, n, m, o
  <2> QED BY <2>4, <2>5, <2>6 DEF b, m, o
<1>7. f.next = t + 1 /\ f.changed = e.changed + 1
  BY <1>4
<1> HIDE DEF f, c, start
<1>8. /\ DecodeTile(old, code.mode, data, start) = Decoded(tile, Len(f.bytes))
      /\ ~CutShort(code.mode, data, start)
      /\ Skipped(code.mode, data, start) = [ok |-> TRUE, pos |-> Len(f.bytes)]
  BY <1>2, <1>6 DEF Encodes
<1>9. ~(t >= TileCount)
  BY TileNumbers DEF Tiles
<1>10. c.ok = TRUE /\ c.mode = code.mode /\ c.tile = t /\ c.pos = start
  BY <1>6
<1> DEFINE s == PlayerAt(e, frame, frame)
           z == Decoded(tile, Len(f.bytes))
<1>11. s.bits = frame /\ s.lcd = frame /\ s.tiles = e.changed
  BY DEF PlayerAt
<1>12. Obey(s, data, c) = PlayTile(s, data, c)
  <2> HIDE DEF s
  <2> QED BY <1>9, <1>10 DEF Obey
<1>13. PlayTile(s, data, c) = Drawn(s, t, z)
  <2> HIDE DEF s, z
  <2>1. TileOf(s.bits, c.tile) = old
    BY <1>10, <1>11 DEF old
  <2>2. ~CutShort(c.mode, data, c.pos) /\ DecodeTile(TileOf(s.bits, c.tile), c.mode, data, c.pos) = z
    BY <1>8, <1>10, <2>1 DEF z
  <2> QED BY <1>10, <2>2 DEF PlayTile
<1>14. Drawn(s, t, z) = PlayerAt(f, Put(frame, t, tile), Put(frame, t, tile))
  <2>1. z.tile = tile /\ z.pos = Len(f.bytes)
    BY DEF Decoded
  <2> HIDE DEF s, z
  <2> QED BY <1>7, <1>11, <2>1 DEF Drawn, PlayerAt
<1>15. StepOver(ParserAt(e), data, c) = ParserAt(f)
  <2> DEFINE k == [ok |-> TRUE, pos |-> Len(f.bytes)]
             p == ParserAt(e)
  <2>1. StepOver(p, data, c) = Stepped(p, data, c, k)
    <3> HIDE DEF p, k
    <3>1. Skipped(c.mode, data, c.pos) = k
      BY <1>8, <1>10 DEF k
    <3> QED BY <3>1 DEF StepOver
  <2>2. k.ok = TRUE /\ k.pos = Len(f.bytes) /\ p.tiles = e.changed
    BY DEF ParserAt
  <2> HIDE DEF p, k
  <2>3. Stepped(p, data, c, k) = [ok |-> TRUE, pos |-> Len(f.bytes), next |-> t + 1, tiles |-> e.changed + 1]
    BY <1>9, <1>10, <2>2 DEF Stepped
  <2> QED BY <1>7, <2>1, <2>3 DEF ParserAt, p
<1>16. Obeyed(e, f, t, frame, tile, data)
  <2> HIDE DEF s
  <2> QED BY <1>6, <1>7, <1>12, <1>13, <1>14, <1>15 DEF Obeyed, c, s
<1> QED BY <1>16 DEF f, code, old

\* The player at the start of a frame, and what it does with the next command.
Begun == [ok |-> TRUE, bits |-> player.bits, lcd |-> player.lcd, pos |-> 0, next |-> 0, tiles |-> 0]
Goes(data, s) == IF ~s.ok \/ s.pos >= Len(data) THEN s ELSE Obey(s, data, Command(data, s.pos, s.next))
\* The player's loop over the commands of a frame.
LEMMA PlayedIs ==
  ASSUME NEW data, Len(data) \in Nat
  PROVE  \E Z : /\ Play(data) = Z[Len(data)]
               /\ Z[0] = Begun
               /\ \A i \in 1 .. Len(data) : Z[i] = Goes(data, Z[i - 1])
<1> DEFINE Follow(i, p) == Goes(data, p)
           Eq(F, k) == F = [i \in 0 .. k |-> IF i = 0 THEN Begun ELSE Follow(i, F[i - 1])]
           Z == CHOOSE F : Eq(F, Len(data))
           T == {k \in 0 .. Len(data) : \E F : Eq(F, k)}
<1>1. Play(data) = Z[Len(data)]
  BY DEF Play, Begun, Goes
<1> HIDE DEF Follow
<1>2. 0 \in T
  <2> DEFINE F == [i \in 0 .. 0 |-> Begun]
  <2>1. Eq(F, 0)
    OBVIOUS
  <2> HIDE DEF Eq, F
  <2> QED BY <2>1
<1>3. ASSUME NEW k \in 0 .. Len(data) - 1, k \in T PROVE k + 1 \in T
  <2>1. PICK F : Eq(F, k)
    BY <1>3
  <2> DEFINE X == [i \in 0 .. k + 1 |-> IF i = k + 1 THEN Follow(k + 1, F[k]) ELSE F[i]]
  <2>2. \A i \in 0 .. k : i \in 0 .. k + 1 /\ i # k + 1
    OBVIOUS
  <2>3. ASSUME NEW i \in 0 .. k + 1
        PROVE  X[i] = IF i = 0 THEN Begun ELSE Follow(i, X[i - 1])
    <3>1. CASE i = 0
      BY <2>1, <2>2, <3>1
    <3>2. CASE i = k + 1
      <4>1. k \in 0 .. k + 1 /\ k # k + 1 /\ i # 0 /\ i - 1 = k
        BY <3>2
      <4>2. X[i] = Follow(k + 1, F[k]) /\ X[k] = F[k]
        BY <3>2, <4>1
      <4> HIDE DEF X
      <4> QED BY <3>2, <4>1, <4>2
    <3>3. CASE i \in 1 .. k
      <4>1. i \in 0 .. k /\ i # 0 /\ i - 1 \in 0 .. k /\ i # k + 1
        BY <3>3
      <4>2. X[i] = F[i] /\ X[i - 1] = F[i - 1]
        BY <4>1, <2>2
      <4>3. F[i] = Follow(i, F[i - 1])
        BY <2>1, <4>1
      <4> HIDE DEF X, Eq
      <4> QED BY <4>1, <4>2, <4>3
    <3>4. i = 0 \/ i = k + 1 \/ i \in 1 .. k
      OBVIOUS
    <3> QED BY <3>1, <3>2, <3>3, <3>4
  <2>4. X = [i \in 0 .. k + 1 |-> X[i]]
    OBVIOUS
  <2> HIDE DEF X
  <2>5. Eq(X, k + 1)
    BY <2>3, <2>4
  <2>6. k + 1 \in 0 .. Len(data)
    OBVIOUS
  <2> HIDE DEF Eq
  <2> QED BY <2>5, <2>6
<1>4. Len(data) \in T
  <2>1. Steps(T, Len(data))
    <3> HIDE DEF T
    <3> QED BY <1>3 DEF Steps
  <2> HIDE DEF T
  <2>2. Len(data) \in 0 .. Len(data)
    OBVIOUS
  <2> QED BY <1>2, <2>1, <2>2, UpTo
<1>5. Eq(Z, Len(data))
  <2>1. \E F : Eq(F, Len(data))
    BY <1>4
  <2> HIDE DEF Eq
  <2> QED BY <2>1, Zenon
<1> HIDE DEF Z
<1>6. Z[0] = Begun /\ \A i \in 1 .. Len(data) : Z[i] = Follow(i, Z[i - 1])
  <2>1. 0 \in 0 .. Len(data) /\ \A i \in 1 .. Len(data) : i \in 0 .. Len(data) /\ i # 0
    OBVIOUS
  <2> QED BY <1>5, <2>1
<1> QED BY <1>1, <1>6 DEF Follow

\* A loop that stands still stays where it is.
LEMMA Still ==
  ASSUME NEW l \in Nat, NEW n \in 0 .. l, NEW X, \A i \in 1 .. l : X[i - 1] = X[n] => X[i] = X[i - 1]
  PROVE  X[l] = X[n]
<1> DEFINE S == {j \in 0 .. l - n : X[n + j] = X[n]}
<1>1. 0 \in S
  <2>1. n + 0 = n /\ 0 \in 0 .. l - n
    OBVIOUS
  <2> QED BY <2>1
<1>2. Steps(S, l - n)
  <2> SUFFICES ASSUME NEW j \in 0 .. (l - n) - 1, j \in S PROVE j + 1 \in S
    BY DEF Steps
  <2>1. X[n + j] = X[n]
    OBVIOUS
  <2> HIDE DEF S
  <2>2. n + (j + 1) \in 1 .. l /\ (n + (j + 1)) - 1 = n + j /\ j + 1 \in 0 .. l - n
    OBVIOUS
  <2>3. X[n + (j + 1)] = X[n]
    BY <2>1, <2>2
  <2> QED BY <2>2, <2>3 DEF S
<1>3. l - n \in S
  <2>1. l - n \in Nat /\ l - n \in 0 .. l - n
    OBVIOUS
  <2> HIDE DEF S
  <2> QED BY <1>1, <1>2, <2>1, UpTo
<1>4. n + (l - n) = l
  OBVIOUS
<1> QED BY <1>3, <1>4

\* A frame of which the tiles before t are those of one, the others of another.
Between(f, current, previous, t) ==
  \A u \in Tiles : TileOf(f, u) = IF u < t THEN TileOf(current, u) ELSE TileOf(previous, u)

\* With the next tile, put or left as it was, one more tile is that of the
\* current frame.
LEMMA BetweenOn ==
  ASSUME TileAssumption, NEW A, NEW f \in FramesOf(A), NEW current, NEW previous, NEW t \in Tiles,
         Between(f, current, previous, t)
  PROVE  /\ TileOf(current, t) = TileOf(previous, t) => Between(f, current, previous, t + 1)
         /\ TileOf(current, t) \in TilesOf(A) =>
              Between(Put(f, t, TileOf(current, t)), current, previous, t + 1)
         /\ TileOf(f, t) = TileOf(previous, t)
<1>1. t \in Nat /\ \A u \in Tiles : u \in Nat
  BY DEF Tiles
<1>2. ~(t < t)
  BY <1>1
<1>3. TileOf(f, t) = TileOf(previous, t)
  BY <1>2 DEF Between
<1>4. ASSUME NEW u \in Tiles, u # t PROVE u < t <=> u < t + 1
  BY <1>1, <1>4
<1>5. t < t + 1
  BY <1>1
<1>6. ASSUME TileOf(current, t) = TileOf(previous, t) PROVE Between(f, current, previous, t + 1)
  <2>1. ASSUME NEW u \in Tiles
        PROVE  TileOf(f, u) = IF u < t + 1 THEN TileOf(current, u) ELSE TileOf(previous, u)
    <3>1. CASE u = t
      BY <1>3, <1>5, <1>6, <3>1
    <3>2. CASE u # t
      BY <1>4, <3>2 DEF Between
    <3> QED BY <3>1, <3>2
  <2> QED BY <2>1 DEF Between
<1>7. ASSUME TileOf(current, t) \in TilesOf(A)
      PROVE  Between(Put(f, t, TileOf(current, t)), current, previous, t + 1)
  <2> DEFINE tile == TileOf(current, t)
             g == Put(f, t, TileOf(current, t))
  <2>1. TileOf(g, t) = TileOf(current, t) /\ \A u \in Tiles : u # t => TileOf(g, u) = TileOf(f, u)
    <3>1. tile \in TilesOf(A)
      BY <1>7
    <3> HIDE DEF tile, g
    <3>2. TileAssumption /\ f \in FramesOf(A) /\ t \in Tiles
      OBVIOUS
    <3>3. TileOf(Put(f, t, tile), t) = tile
          /\ \A u \in Tiles : u # t => TileOf(Put(f, t, tile), u) = TileOf(f, u)
      BY ONLY <3>1, <3>2, PutIs
    <3> QED BY <3>3 DEF tile, g
  <2> HIDE DEF g, tile
  <2>2. ASSUME NEW u \in Tiles
        PROVE  TileOf(g, u) = IF u < t + 1 THEN TileOf(current, u) ELSE TileOf(previous, u)
    <3>1. CASE u = t
      BY <1>5, <2>1, <3>1
    <3>2. CASE u # t
      BY <1>4, <2>1, <3>2 DEF Between
    <3> QED BY <3>1, <3>2
  <2> QED BY <2>2 DEF Between, g
<1> QED BY <1>3, <1>6, <1>7

\* A player that has the frame before gets the next one from what the encoder
\* wrote for it, and the analyzer steps over as many tiles.
THEOREM FrameBack ==
  ASSUME TileAssumption, kind = "PCV3", NEW current \in [FramePixels -> {0, 1}], NEW previous \in [FramePixels -> {0, 1}]
  PROVE  LET code == encode_frame(current, previous)
         IN /\ code.bytes \in Seq(Nat) /\ code.changed \in Nat
            /\ Parsed(code.bytes) = ParserAt(code)
            /\ player.bits = previous /\ player.lcd = previous =>
                 Play(code.bytes) = PlayerAt(code, current, current)
<1>1. TileCount \in Nat /\ TileCount \in 0 .. TileCount
  BY TileNumbers
<1>2. PICK Z : /\ encode_frame(current, previous) = Z[TileCount]
               /\ Z[0] = [bytes |-> <<>>, next |-> 0, changed |-> 0]
               /\ \A i \in 1 .. TileCount :
                    Z[i] = IF TileOf(current, i - 1) = TileOf(previous, i - 1) THEN Z[i - 1]
                           ELSE Emitted(Z[i - 1], i - 1, Encoding(TileOf(current, i - 1), TileOf(previous, i - 1)))
  BY <1>1, EncodeIs
<1>3. ASSUME NEW t \in 0 .. TileCount - 1
      PROVE  /\ t \in Tiles /\ t + 1 \in 0 .. TileCount
             /\ Z[t + 1] = IF TileOf(current, t) = TileOf(previous, t) THEN Z[t]
                           ELSE Emitted(Z[t], t, Encoding(TileOf(current, t), TileOf(previous, t)))
  <2>1. t + 1 \in 1 .. TileCount /\ (t + 1) - 1 = t /\ t + 1 \in 0 .. TileCount
    BY <1>1
  <2> QED BY <1>2, <2>1 DEF Tiles
<1> DEFINE Good(e, t) == e.bytes \in Seq(Nat) /\ e.next \in Nat /\ e.next <= t /\ e.changed \in Nat
<1>4. ASSUME NEW t \in 0 .. TileCount PROVE Good(Z[t], t)
  <2> DEFINE S == {j \in 0 .. TileCount : Good(Z[j], j)}
  <2>1. 0 \in S
    <3>1. Z[0].bytes = <<>> /\ Z[0].next = 0 /\ Z[0].changed = 0 /\ <<>> \in Seq(Nat) /\ 0 \in Nat /\ 0 <= 0
      BY <1>2
    <3>2. Good(Z[0], 0)
      BY <3>1, Zenon
    <3>3. 0 \in 0 .. TileCount
      BY <1>1
    <3> HIDE DEF Good
    <3> QED BY <3>2, <3>3
  <2>2. Steps(S, TileCount)
    <3> SUFFICES ASSUME NEW q \in 0 .. TileCount - 1, q \in S PROVE q + 1 \in S
      BY DEF Steps
    <3>1. Good(Z[q], q)
      OBVIOUS
    <3> HIDE DEF S
    <3>2. CASE TileOf(current, q) = TileOf(previous, q)
      <4>1. Z[q + 1] = Z[q]
        BY <1>3, <3>2
      <4>2. Z[q].next <= q + 1
        BY <3>1
      <4>3. Good(Z[q + 1], q + 1)
        BY <3>1, <4>1, <4>2
      <4> HIDE DEF Good
      <4> QED BY <1>3, <4>3 DEF S
    <3>3. CASE TileOf(current, q) # TileOf(previous, q)
      <4> DEFINE code == Encoding(TileOf(current, q), TileOf(previous, q))
                 e == Z[q]
                 cmd == emit_tile_command(q, code.mode, e.next)
      <4>1. Z[q + 1] = Emitted(e, q, code) /\ q \in Tiles
        BY <1>3, <3>3
      <4>2. code.mode \in Nat /\ code.bytes \in Seq(Nat)
        <5>1. TileOf(current, q) \in OneBit /\ TileOf(previous, q) \in OneBit
          BY <4>1, TileOfIs DEF OneBit
        <5> QED BY <5>1, TileBack DEF Encodes
      <4> HIDE DEF code
      <4>3. e.bytes \in Seq(Nat) /\ e.next \in Nat /\ e.next <= q /\ e.changed \in Nat /\ q \in Nat
        BY <3>1
      <4>4. cmd \in Seq(Nat)
        <5> DEFINE nothing == <<>>
                   n == e.next
                   m == code.mode
        <5>1. nothing \in Seq(Nat)
          OBVIOUS
        <5> HIDE DEF nothing, n, m, e
        <5>2. n \in Nat /\ n <= q /\ m \in Nat
          BY <4>2, <4>3 DEF n, m
        <5>3. emit_tile_command(q, m, n) \in Seq(Nat)
          BY <4>3, <5>1, <5>2, CommandIs
        <5> QED BY <5>3 DEF n, m
      <4> HIDE DEF cmd, e
      <4>5. Z[q + 1].bytes = e.bytes \o cmd \o code.bytes /\ Z[q + 1].next = q + 1
            /\ Z[q + 1].changed = e.changed + 1
        <5>1. Z[q + 1] = [bytes |-> e.bytes \o cmd \o code.bytes, next |-> q + 1, changed |-> e.changed + 1]
          BY <4>1 DEF Emitted, cmd
        <5> DEFINE z == Z[q + 1]
                   b == e.bytes \o cmd \o code.bytes
                   k == e.changed + 1
        <5>2. z = [bytes |-> b, next |-> q + 1, changed |-> k]
          BY <5>1
        <5> HIDE DEF z, b, k
        <5>3. z.bytes = b /\ z.next = q + 1 /\ z.changed = k
          BY <5>2
        <5> QED BY <5>3 DEF z, b, k
      <4>6. Z[q + 1].bytes \in Seq(Nat)
        <5>1. e.bytes \o cmd \in Seq(Nat)
          BY <4>3, <4>4, JoinIs
        <5>2. (e.bytes \o cmd) \o code.bytes \in Seq(Nat)
          BY <4>2, <5>1, JoinIs
        <5> QED BY <4>5, <5>2
      <4>7. Good(Z[q + 1], q + 1)
        BY <4>3, <4>5, <4>6
      <4> HIDE DEF Good
      <4> QED BY <1>3, <4>7 DEF S
    <3> QED BY <3>2, <3>3
  <2> HIDE DEF S
  <2>3. t \in S
    BY <1>1, <2>1, <2>2, UpTo
  <2> QED BY <2>3 DEF S
<1> DEFINE D == Z[TileCount].bytes
<1> HIDE DEF D
<1>5. D \in Seq(Nat) /\ Len(D) \in Nat
  BY <1>1, <1>4 DEF D
<1>a. Len(D) \in Nat
  BY <1>5
<1>6. PICK Y : /\ Play(D) = Y[Len(D)]
               /\ Y[0] = Begun
               /\ \A i \in 1 .. Len(D) : Y[i] = Goes(D, Y[i - 1])
  BY <1>a, PlayedIs
<1>7. PICK X : /\ Parsed(D) = X[Len(D)]
               /\ X[0] = [ok |-> TRUE, pos |-> 0, next |-> 0, tiles |-> 0]
               /\ \A i \in 1 .. Len(D) :
                    X[i] = IF ~X[i - 1].ok \/ X[i - 1].pos >= Len(D) THEN X[i - 1]
                           ELSE StepOver(X[i - 1], D, Command(D, X[i - 1].pos, X[i - 1].next))
  BY <1>5, ParsedIs
<1> DEFINE Here == player.bits = previous /\ player.lcd = previous
           Parses(e) == \E n \in 0 .. Len(D) : n <= Len(e.bytes) /\ X[n] = ParserAt(e)
           Plays(e, t) == \E n \in 0 .. Len(D), f \in [FramePixels -> {0, 1}] :
                            n <= Len(e.bytes) /\ Between(f, current, previous, t) /\ Y[n] = PlayerAt(e, f, f)
           P(e, t) == Holds(D, 0, e.bytes) => Parses(e) /\ (Here => Plays(e, t))
<1>8. P(Z[0], 0)
  <2>1. Len(Z[0].bytes) = 0 /\ ParserAt(Z[0]) = X[0] /\ 0 \in 0 .. Len(D) /\ 0 <= 0
    BY <1>2, <1>5, <1>7 DEF ParserAt
  <2>2. Here => PlayerAt(Z[0], previous, previous) = Y[0]
    BY <1>2, <1>6 DEF PlayerAt, Begun
  <2>3. Between(previous, current, previous, 0)
    <3>1. \A u \in Tiles : ~(u < 0)
      BY <1>1 DEF Tiles
    <3> QED BY <3>1 DEF Between
  <2> QED BY <2>1, <2>2, <2>3
<1> HIDE DEF Here, Parses, Plays, Good
<1>9. ASSUME NEW t \in 0 .. TileCount - 1, P(Z[t], t) PROVE P(Z[t + 1], t + 1)
  <2> DEFINE e == Z[t]
             f == Z[t + 1]
  <2>1. t \in Tiles /\ t \in 0 .. TileCount
    BY <1>1 DEF Tiles
  <2>2. e.bytes \in Seq(Nat) /\ e.next \in Nat /\ e.next <= t /\ e.changed \in Nat
    BY <1>4, <2>1 DEF Good
  <2> HIDE DEF e, f
  <2>3. SUFFICES ASSUME Holds(D, 0, f.bytes) PROVE Parses(f) /\ (Here => Plays(f, t + 1))
    BY DEF f
  <2>4. CASE TileOf(current, t) = TileOf(previous, t)
    <3>1. f = e
      BY <1>3, <2>4 DEF e, f
    <3>2. Parses(e) /\ (Here => Plays(e, t))
      BY <1>9, <2>3, <3>1 DEF e
    <3>3. Here => Plays(f, t + 1)
      <4> SUFFICES ASSUME Here PROVE Plays(f, t + 1)
        OBVIOUS
      <4>1. PICK n \in 0 .. Len(D), g \in [FramePixels -> {0, 1}] :
              n <= Len(e.bytes) /\ Between(g, current, previous, t) /\ Y[n] = PlayerAt(e, g, g)
        BY <3>2 DEF Plays
      <4>2. Between(g, current, previous, t + 1)
        <5> DEFINE A == {0, 1}
        <5>1. TileAssumption /\ g \in FramesOf(A) /\ t \in Tiles /\ Between(g, current, previous, t)
          BY <2>1, <4>1 DEF FramesOf
        <5> HIDE DEF A
        <5> QED BY ONLY <2>4, <5>1, BetweenOn
      <4> QED BY <3>1, <4>1, <4>2 DEF Plays
    <3> QED BY <3>1, <3>2, <3>3
  <2>5. CASE TileOf(current, t) # TileOf(previous, t)
    <3> DEFINE tile == TileOf(current, t)
               c == Command(D, Len(e.bytes), e.next)
    <3>1. f = Emitted(e, t, Encoding(tile, TileOf(previous, t)))
      BY <1>3, <2>5 DEF e, f
    <3>2. tile \in OneBit
      BY <2>1, TileOfIs DEF OneBit
    <3>3. ASSUME NEW g \in [FramePixels -> {0, 1}], TileOf(g, t) = TileOf(previous, t)
          PROVE  /\ f.bytes \in Seq(Nat) /\ Holds(D, 0, e.bytes) /\ Len(e.bytes) < Len(f.bytes)
                      /\ Len(f.bytes) <= Len(D)
                 /\ Obey(PlayerAt(e, g, g), D, c) = PlayerAt(f, Put(g, t, tile), Put(g, t, tile))
                 /\ StepOver(ParserAt(e), D, c) = ParserAt(f)
      <4>1. f = Emitted(e, t, Encoding(tile, TileOf(g, t)))
        BY <3>1, <3>3
      <4> HIDE DEF tile
      <4>2. Holds(D, 0, Emitted(e, t, Encoding(tile, TileOf(g, t))).bytes)
        BY <2>3, <4>1
      <4>3. /\ TileAssumption /\ kind = "PCV3" /\ t \in Tiles /\ tile \in OneBit /\ D \in Seq(Nat)
            /\ e.bytes \in Seq(Nat) /\ e.next \in Nat /\ e.changed \in Nat /\ e.next <= t
            /\ g \in [FramePixels -> {0, 1}]
        BY <1>5, <2>1, <2>2, <3>2
      <4> DEFINE h == Emitted(e, t, Encoding(tile, TileOf(g, t)))
      <4>4. Obeyed(e, h, t, g, tile, D)
        BY ONLY <4>2, <4>3, TileObeyed
      <4>5. f = h
        BY <4>1
      <4> HIDE DEF h
      <4>6. Obeyed(e, f, t, g, tile, D)
        BY <4>4, <4>5
      <4> QED BY <4>6 DEF Obeyed
    <3> HIDE DEF tile, c
    <3>4. /\ f.bytes \in Seq(Nat) /\ Holds(D, 0, e.bytes) /\ Len(e.bytes) < Len(f.bytes) /\ Len(f.bytes) <= Len(D)
          /\ StepOver(ParserAt(e), D, c) = ParserAt(f)
      BY <3>3
    <3>5. Parses(e) /\ (Here => Plays(e, t))
      BY <1>9, <3>4 DEF e
    <3>6. Len(e.bytes) \in Nat /\ Len(f.bytes) \in Nat
      BY <2>2, <3>4
    <3>7. ASSUME NEW n \in 0 .. Len(D), n <= Len(e.bytes)
          PROVE  n + 1 \in 1 .. Len(D) /\ n + 1 \in 0 .. Len(D) /\ (n + 1) - 1 = n /\ n + 1 <= Len(f.bytes)
                 /\ ~(Len(e.bytes) >= Len(D))
      BY <1>5, <3>4, <3>6, <3>7
    <3>8. Parses(f)
      <4>1. PICK n \in 0 .. Len(D) : n <= Len(e.bytes) /\ X[n] = ParserAt(e)
        BY <3>5 DEF Parses
      <4>2. X[n + 1] = IF ~X[n].ok \/ X[n].pos >= Len(D) THEN X[n]
                       ELSE StepOver(X[n], D, Command(D, X[n].pos, X[n].next))
        BY <1>7, <3>7, <4>1
      <4>3. X[n].ok = TRUE /\ X[n].pos = Len(e.bytes) /\ X[n].next = e.next
        BY <4>1 DEF ParserAt
      <4>4. X[n + 1] = StepOver(X[n], D, c)
        BY <3>7, <4>1, <4>2, <4>3 DEF c
      <4> QED BY <3>4, <3>7, <4>1, <4>4 DEF Parses
    <3>9. Here => Plays(f, t + 1)
      <4> SUFFICES ASSUME Here PROVE Plays(f, t + 1)
        OBVIOUS
      <4>1. PICK n \in 0 .. Len(D), g \in [FramePixels -> {0, 1}] :
              n <= Len(e.bytes) /\ Between(g, current, previous, t) /\ Y[n] = PlayerAt(e, g, g)
        BY <3>5 DEF Plays
      <4>2. Y[n + 1] = IF ~Y[n].ok \/ Y[n].pos >= Len(D) THEN Y[n]
                       ELSE Obey(Y[n], D, Command(D, Y[n].pos, Y[n].next))
        BY <1>6, <3>7, <4>1 DEF Goes
      <4>3. Y[n].ok = TRUE /\ Y[n].pos = Len(e.bytes) /\ Y[n].next = e.next
        BY <4>1 DEF PlayerAt
      <4>4. Y[n + 1] = Obey(Y[n], D, c)
        BY <3>7, <4>1, <4>2, <4>3 DEF c
      <4>5. TileOf(g, t) = TileOf(previous, t) /\ Between(Put(g, t, tile), current, previous, t + 1)
        <5>1. tile \in [0 .. TilePixels - 1 -> {0, 1}]
          BY <3>2 DEF OneBit
        <5>2. TileOf(current, t) \in [0 .. TilePixels - 1 -> {0, 1}]
          BY <5>1 DEF tile
        <5> DEFINE A == {0, 1}
        <5>4. /\ TileAssumption /\ g \in FramesOf(A) /\ t \in Tiles /\ Between(g, current, previous, t)
              /\ TileOf(current, t) \in TilesOf(A)
          BY <2>1, <4>1, <5>2 DEF FramesOf, TilesOf
        <5> HIDE DEF A
        <5>3. TileOf(g, t) = TileOf(previous, t) /\ Between(Put(g, t, TileOf(current, t)), current, previous, t + 1)
          BY ONLY <5>4, BetweenOn
        <5> QED BY <5>3 DEF tile
      <4>6. Put(g, t, tile) \in [FramePixels -> {0, 1}]
        <5> DEFINE A == {0, 1}
        <5>1. TileAssumption /\ g \in FramesOf(A) /\ t \in Tiles /\ tile \in TilesOf(A)
          BY <2>1, <3>2, <4>1 DEF OneBit, FramesOf, TilesOf
        <5> HIDE DEF A
        <5>2. Put(g, t, tile) \in FramesOf(A)
          BY ONLY <5>1, PutIs
        <5> QED BY <5>2 DEF FramesOf, A
      <4>7. Y[n + 1] = PlayerAt(f, Put(g, t, tile), Put(g, t, tile))
        BY <3>3, <4>1, <4>4, <4>5
      <4> QED BY <3>7, <4>1, <4>5, <4>6, <4>7 DEF Plays
    <3> QED BY <3>8, <3>9
  <2> QED BY <2>4, <2>5
<1>10. P(Z[TileCount], TileCount)
  <2> DEFINE S == {j \in 0 .. TileCount : P(Z[j], j)}
  <2> HIDE DEF P
  <2>1. 0 \in S
    BY <1>1, <1>8
  <2>2. Steps(S, TileCount)
    <3>1. ASSUME NEW j \in 0 .. TileCount - 1, j \in S PROVE j + 1 \in S
      <4>1. P(Z[j], j)
        BY <3>1
      <4> HIDE DEF S
      <4>2. P(Z[j + 1], j + 1) /\ j + 1 \in 0 .. TileCount
        BY <1>3, <1>9, <4>1
      <4> QED BY <4>2 DEF S
    <3> HIDE DEF S
    <3> QED BY <3>1 DEF Steps
  <2> HIDE DEF S
  <2>3. TileCount \in S
    BY <1>1, <2>1, <2>2, UpTo
  <2> QED BY <2>3 DEF S
<1> DEFINE code == Z[TileCount]
<1>11. D = code.bytes /\ Holds(D, 0, code.bytes)
  <2>1. D = code.bytes
    BY DEF D
  <2> HIDE DEF code
  <2>2. 0 + Len(D) <= Len(D) /\ \A i \in 1 .. Len(D) : 0 + i = i
    BY <1>5
  <2>3. Holds(D, 0, D)
    BY <2>2 DEF Holds
  <2> QED BY <2>1, <2>3
<1>12. Parses(code) /\ (Here => Plays(code, TileCount))
  BY <1>10, <1>11
<1> HIDE DEF code
<1>13. Parsed(D) = ParserAt(code)
  <2>1. PICK n \in 0 .. Len(D) : X[n] = ParserAt(code)
    BY <1>12 DEF Parses
  <2>2. X[n].pos = Len(D)
    BY <1>11, <2>1 DEF ParserAt
  <2>3. \A i \in 1 .. Len(D) : X[i - 1] = X[n] => X[i] = X[i - 1]
    <3>1. Len(D) >= Len(D)
      BY <1>5
    <3> QED BY <1>7, <2>2, <3>1
  <2>4. X[Len(D)] = X[n]
    <3>1. Len(D) \in Nat /\ n \in 0 .. Len(D)
      BY <1>5, <2>1
    <3> QED BY ONLY <2>3, <3>1, Still
  <2> QED BY <1>7, <2>1, <2>4
<1>14. ASSUME Here PROVE Play(D) = PlayerAt(code, current, current)
  <2>1. PICK n \in 0 .. Len(D), g \in [FramePixels -> {0, 1}] :
              Between(g, current, previous, TileCount) /\ Y[n] = PlayerAt(code, g, g)
    BY <1>12, <1>14 DEF Plays
  <2>2. Y[n].pos = Len(D)
    BY <1>11, <2>1 DEF PlayerAt
  <2>3. \A i \in 1 .. Len(D) : Y[i - 1] = Y[n] => Y[i] = Y[i - 1]
    <3>1. Len(D) >= Len(D)
      BY <1>5
    <3> QED BY <1>6, <2>2, <3>1 DEF Goes
  <2>4. Y[Len(D)] = Y[n]
    <3>1. Len(D) \in Nat /\ n \in 0 .. Len(D)
      BY <1>5, <2>1
    <3> QED BY ONLY <2>3, <3>1, Still
  <2>5. g = current
    <3>1. \A u \in Tiles : u < TileCount
      BY <1>1 DEF Tiles
    <3>2. \A u \in Tiles : TileOf(g, u) = TileOf(current, u)
      BY <2>1, <3>1 DEF Between
    <3> QED BY <3>2, FramesEqual
  <2> QED BY <1>6, <2>1, <2>4, <2>5
<1>15. code.changed \in Nat
  BY <1>1, <1>4 DEF Good, code
<1>16. encode_frame(current, previous) = code
  BY <1>2 DEF code
<1> QED BY <1>5, <1>11, <1>13, <1>14, <1>15, <1>16 DEF Here

(***************************************************************************)
(* Tiles of two colours.                                                   *)
(***************************************************************************)
Colour == [1 .. 3 -> 0 .. 255]
\* what the player paints, and what the encoder takes to be shown
Painted == {<<0, 0, 0>>} \cup {rgb332(n) : n \in Nat}
Known == {<<0, 0, 0>>} \cup {rgb332_to_rgb565(n) : n \in Nat}

\* The scan for the two colours, a colour at a time.
ScanStart(tile) == [top |-> <<0, 0>>, left |-> {quant_rgb332(tile[i]) : i \in DOMAIN tile}]
ScanOn(tile, s) ==
  IF s.left = {} THEN s
  ELSE [top |-> Scanned(tile, s.top, Min(s.left)), left |-> s.left \ {Min(s.left)}]
TopOf(tile, top) == IF Histogram(tile, top[2]) = 0 THEN <<top[1], top[1]>> ELSE top

\* The steps of TopColors.
LEMMA TopIs ==
  ASSUME NEW tile, TilePixels \in Nat
  PROVE  \E Z : /\ TopColors(tile) = TopOf(tile, Z[TilePixels].top)
               /\ Z[0] = ScanStart(tile)
               /\ \A i \in 1 .. TilePixels : Z[i] = ScanOn(tile, Z[i - 1])
<1> DEFINE Follow(i, p) == ScanOn(tile, p)
           Eq(F, k) == F = [i \in 0 .. k |-> IF i = 0 THEN ScanStart(tile) ELSE Follow(i, F[i - 1])]
           Z == CHOOSE F : Eq(F, TilePixels)
           T == {k \in 0 .. TilePixels : \E F : Eq(F, k)}
<1>1. TopColors(tile) = TopOf(tile, Z[TilePixels].top)
  BY DEF TopColors, TopOf, ScanStart, ScanOn
<1> HIDE DEF Follow
<1>2. 0 \in T
  <2> DEFINE F == [i \in 0 .. 0 |-> ScanStart(tile)]
  <2>1. Eq(F, 0)
    OBVIOUS
  <2> HIDE DEF Eq, F
  <2> QED BY <2>1
<1>3. ASSUME NEW k \in 0 .. TilePixels - 1, k \in T PROVE k + 1 \in T
  <2>1. PICK F : Eq(F, k)
    BY <1>3
  <2> DEFINE X == [i \in 0 .. k + 1 |-> IF i = k + 1 THEN Follow(k + 1, F[k]) ELSE F[i]]
  <2>2. \A i \in 0 .. k : i \in 0 .. k + 1 /\ i # k + 1
    OBVIOUS
  <2>3. ASSUME NEW i \in 0 .. k + 1
        PROVE  X[i] = IF i = 0 THEN ScanStart(tile) ELSE Follow(i, X[i - 1])
    <3>1. CASE i = 0
      BY <2>1, <2>2, <3>1
    <3>2. CASE i = k + 1
      <4>1. k \in 0 .. k + 1 /\ k # k + 1 /\ i # 0 /\ i - 1 = k
        BY <3>2
      <4>2. X[i] = Follow(k + 1, F[k]) /\ X[k] = F[k]
        BY <3>2, <4>1
      <4> HIDE DEF X
      <4> QED BY <3>2, <4>1, <4>2
    <3>3. CASE i \in 1 .. k
      <4>1. i \in 0 .. k /\ i # 0 /\ i - 1 \in 0 .. k /\ i # k + 1
        BY <3>3
      <4>2. X[i] = F[i] /\ X[i - 1] = F[i - 1]
        BY <4>1, <2>2
      <4>3. F[i] = Follow(i, F[i - 1])
        BY <2>1, <4>1
      <4> HIDE DEF X, Eq
      <4> QED BY <4>1, <4>2, <4>3
    <3>4. i = 0 \/ i = k + 1 \/ i \in 1 .. k
      OBVIOUS
    <3> QED BY <3>1, <3>2, <3>3, <3>4
  <2>4. X = [i \in 0 .. k + 1 |-> X[i]]
    OBVIOUS
  <2> HIDE DEF X
  <2>5. Eq(X, k + 1)
    BY <2>3, <2>4
  <2>6. k + 1 \in 0 .. TilePixels
    OBVIOUS
  <2> HIDE DEF Eq
  <2> QED BY <2>5, <2>6
<1>4. TilePixels \in T
  <2>1. Steps(T, TilePixels)
    <3> HIDE DEF T
    <3> QED BY <1>3 DEF Steps
  <2> HIDE DEF T
  <2>2. TilePixels \in 0 .. TilePixels
    OBVIOUS
  <2> QED BY <1>2, <2>1, <2>2, UpTo
<1>5. Eq(Z, TilePixels)
  <2>1. \E F : Eq(F, TilePixels)
    BY <1>4
  <2> HIDE DEF Eq
  <2> QED BY <2>1, Zenon
<1> HIDE DEF Z
<1>6. Z[0] = ScanStart(tile) /\ \A i \in 1 .. TilePixels : Z[i] = Follow(i, Z[i - 1])
  <2>1. 0 \in 0 .. TilePixels /\ \A i \in 1 .. TilePixels : i \in 0 .. TilePixels /\ i # 0
    OBVIOUS
  <2> QED BY <1>5, <2>1
<1> QED BY <1>1, <1>6 DEF Follow

\* The two colours of a tile are two of the stream.
LEMMA TopTwo ==
  ASSUME TileAssumption, NEW tile \in TilesOf(Colour)
  PROVE  \E a, b \in Nat : TopColors(tile) = <<a, b>>
<1>1. TilePixels \in Nat /\ TilePixels \in 0 .. TilePixels
  BY TileNumbers
<1>2. PICK Z : /\ TopColors(tile) = TopOf(tile, Z[TilePixels].top)
               /\ Z[0] = ScanStart(tile)
               /\ \A i \in 1 .. TilePixels : Z[i] = ScanOn(tile, Z[i - 1])
  BY <1>1, TopIs
<1>3. ASSUME NEW c \in Colour PROVE quant_rgb332(c) \in Nat
  <2>1. c[1] \in Nat /\ c[2] \in Nat /\ c[3] \in Nat
    BY DEF Colour
  <2> DEFINE x == c[1]
             y == c[2]
             z == c[3]
  <2> HIDE DEF x, y, z
  <2>2. x \in Nat /\ y \in Nat /\ z \in Nat
    BY <2>1 DEF x, y, z
  <2>3. (x \div 32) * 32 + (y \div 32) * 4 + z \div 64 \in Nat
    BY ONLY <2>2
  <2> QED BY <2>3 DEF quant_rgb332, x, y, z
<1> DEFINE Two(top) == \E a, b \in Nat : top = <<a, b>>
           Good(s) == Two(s.top) /\ s.left \in SUBSET Nat
           S == {j \in 0 .. TilePixels : Good(Z[j])}
<1>4. 0 \in S
  <2> DEFINE z == ScanStart(tile)
             found == {quant_rgb332(tile[i]) : i \in DOMAIN tile}
  <2>1. z = [top |-> <<0, 0>>, left |-> found]
    BY DEF ScanStart
  <2>2. found \in SUBSET Nat
    <3>1. \A i \in DOMAIN tile : tile[i] \in Colour
      BY DEF TilesOf
    <3> QED BY <1>3, <3>1
  <2> HIDE DEF z, found
  <2>3. z.top = <<0, 0>> /\ z.left = found
    BY <2>1
  <2>4. Good(z)
    <3>1. Two(<<0, 0>>)
      <4>1. 0 \in Nat
        OBVIOUS
      <4> QED BY <4>1
    <3> QED BY <2>2, <2>3, <3>1
  <2> HIDE DEF Good
  <2>5. 0 \in 0 .. TilePixels
    BY <1>1
  <2> QED BY <1>2, <2>4, <2>5 DEF z
<1>5. ASSUME NEW s, Good(s) PROVE Good(ScanOn(tile, s))
  <2>1. CASE s.left = {}
    BY <1>5, <2>1 DEF ScanOn
  <2>2. CASE s.left # {}
    <3> DEFINE c == Min(s.left)
               top == Scanned(tile, s.top, c)
    <3>1. c \in Nat
      BY <1>5, <2>2, MinIs
    <3>2. ScanOn(tile, s) = [top |-> top, left |-> s.left \ {c}]
      BY <2>2 DEF ScanOn
    <3> HIDE DEF c
    <3>3. Two(top)
      <4>1. PICK a \in Nat, b \in Nat : s.top = <<a, b>>
        BY <1>5
      <4>2. s.top[1] = a
        BY <4>1
      <4>3. top = <<c, a>> \/ top = <<a, c>> \/ top = <<a, b>>
        BY <4>1, <4>2 DEF Scanned
      <4> QED BY <3>1, <4>3
    <3> HIDE DEF top, Two
    <3>4. s.left \ {c} \in SUBSET Nat
      BY <1>5
    <3> DEFINE l == s.left \ {c}
    <3> HIDE DEF l
    <3>5. ScanOn(tile, s) = [top |-> top, left |-> l] /\ l \in SUBSET Nat
      BY <3>2, <3>4 DEF l
    <3> QED BY <3>3, <3>5
  <2> QED BY <2>1, <2>2
<1>6. Steps(S, TilePixels)
  <2>1. ASSUME NEW j \in 0 .. TilePixels - 1, j \in S PROVE j + 1 \in S
    <3>1. j + 1 \in 1 .. TilePixels /\ (j + 1) - 1 = j /\ j + 1 \in 0 .. TilePixels
      BY <1>1
    <3>2. Good(Z[j])
      BY <2>1
    <3> HIDE DEF Good
    <3>3. Z[j + 1] = ScanOn(tile, Z[j])
      BY <1>2, <3>1
    <3>4. Good(Z[j + 1])
      BY <1>5, <3>2, <3>3
    <3> QED BY <3>1, <3>4
  <2> HIDE DEF S
  <2> QED BY <2>1 DEF Steps
<1>7. Good(Z[TilePixels])
  <2> HIDE DEF S, Good
  <2>1. TilePixels \in S
    BY <1>1, <1>4, <1>6, UpTo
  <2> QED BY <2>1 DEF S
<1>8. PICK a \in Nat, b \in Nat : Z[TilePixels].top = <<a, b>>
  BY <1>7
<1>9. TopColors(tile) = <<a, a>> \/ TopColors(tile) = <<a, b>>
  BY <1>2, <1>8 DEF TopOf
<1> QED BY <1>9

\* The bytes of a tile, and what the player paints from them.
LEMMA ColorBack ==
  ASSUME TileAssumption, NEW tile \in TilesOf(Colour)
  PROVE  LET code == ColorEncoding(tile)
         IN /\ code.mode \in Nat /\ code.mode \in {MODE_SOLID, MODE_PAIR} /\ code.bytes \in Seq(Nat)
            /\ Len(code.bytes) = ColorBytes(code.mode) /\ Len(code.bytes) <= 2 + TileBytes
            /\ Rendered(tile) \in TilesOf(Known)
            /\ \A data \in Seq(Nat), pos \in Nat :
                 Holds(data, pos, code.bytes) =>
                   /\ ColorTile(code.mode, data, pos) \in TilesOf(Painted)
                   /\ \A i \in 0 .. TilePixels - 1 :
                        As565(ColorTile(code.mode, data, pos)[i]) = Rendered(tile)[i]
<1>1. PICK a \in Nat, b \in Nat : TopColors(tile) = <<a, b>>
  BY TopTwo
<1> DEFINE top == TopColors(tile)
           mask == [i \in DOMAIN tile |-> IF Chosen(tile[i], top) = top[2] THEN 1 ELSE 0]
           code == ColorEncoding(tile)
<1>2. top = <<a, b>> /\ top[1] = a /\ top[2] = b
  BY <1>1
<1>3. DOMAIN tile = 0 .. TilePixels - 1
  BY DEF TilesOf
<1>4. code = IF a = b THEN [mode |-> MODE_SOLID, bytes |-> <<a>>]
             ELSE [mode |-> MODE_PAIR, bytes |-> top \o Packed(mask)]
  BY <1>2 DEF ColorEncoding
<1>5. /\ \A i \in 0 .. TilePixels - 1 : Rendered(tile)[i] = rgb332_to_rgb565(Chosen(tile[i], top))
      /\ Rendered(tile) = [i \in 0 .. TilePixels - 1 |-> rgb332_to_rgb565(Chosen(tile[i], top))]
  BY <1>3 DEF Rendered
<1>6. mask \in OneBit /\ \A i \in 0 .. TilePixels - 1 : mask[i] = 1 <=> Chosen(tile[i], top) = b
  BY <1>2, <1>3 DEF OneBit
<1> HIDE DEF mask, top
<1>7. \A c : Chosen(c, top) = a \/ Chosen(c, top) = b
  BY <1>2 DEF Chosen
<1>8. ASSUME NEW n \in Nat
      PROVE  As565(rgb332(n)) = rgb332_to_rgb565(n) /\ rgb332(n) \in Painted /\ rgb332_to_rgb565(n) \in Known
  <2>1. As565(rgb332(n)) = rgb332_to_rgb565(n)
    BY DEF As565, rgb332_to_rgb565
  <2> QED BY <2>1 DEF Painted, Known
<1>9. Rendered(tile) \in TilesOf(Known)
  <2>1. \A i \in 0 .. TilePixels - 1 : rgb332_to_rgb565(Chosen(tile[i], top)) \in Known
    BY <1>7, <1>8
  <2> QED BY <1>5, <2>1 DEF TilesOf
<1>10. MODE_SOLID \in Nat /\ MODE_PAIR \in Nat /\ MODE_PAIR # MODE_SOLID
  BY DEF MODE_SOLID, MODE_PAIR
<1>11. TileBytes \in Nat
  BY TileNumbers
<1>12. CASE a = b
  <2>1. code.mode = MODE_SOLID /\ code.bytes = <<a>>
    BY <1>4, <1>12
  <2>2. <<a>> \in Seq(Nat) /\ Len(<<a>>) <= 1 /\ Len(<<a>>) >= 1
    OBVIOUS
  <2> HIDE DEF code
  <2>3. ColorBytes(code.mode) = 1
    BY <2>1 DEF ColorBytes
  <2>4. ASSUME NEW data \in Seq(Nat), NEW pos \in Nat, Holds(data, pos, code.bytes)
        PROVE  /\ ColorTile(code.mode, data, pos) \in TilesOf(Painted)
               /\ \A i \in 0 .. TilePixels - 1 :
                    As565(ColorTile(code.mode, data, pos)[i]) = Rendered(tile)[i]
    <3>1. ByteAt(data, pos) = a
      BY <2>1, <2>4, HoldsFew
    <3>2. ColorTile(code.mode, data, pos) = [i \in 0 .. TilePixels - 1 |-> rgb332(a)]
      BY <2>1, <3>1 DEF ColorTile
    <3>3. \A i \in 0 .. TilePixels - 1 : Rendered(tile)[i] = rgb332_to_rgb565(a)
      BY <1>5, <1>7, <1>12
    <3> QED BY <1>8, <3>2, <3>3 DEF TilesOf
  <2>5. Len(code.bytes) = ColorBytes(code.mode) /\ Len(code.bytes) <= 2 + TileBytes
    <3> DEFINE l == Len(<<a>>)
    <3>1. l <= 1 /\ l >= 1 /\ l \in Nat
      BY <2>2
    <3> HIDE DEF l
    <3>2. l = 1 /\ l <= 2 + TileBytes
      BY <1>11, <3>1
    <3> QED BY <2>1, <2>3, <3>2 DEF l
  <2> QED BY <1>9, <1>10, <2>1, <2>2, <2>4, <2>5 DEF code
<1>13. CASE a # b
  <2> DEFINE p == Packed(mask)
             two == <<a, b>>
  <2>1. p \in Seq(Nat) /\ Len(p) = TileBytes /\ \A i \in 0 .. TilePixels - 1 : get_bit(p, i) = mask[i]
    BY <1>6, PackedBits
  <2>2. two \in Seq(Nat) /\ Len(two) <= 2 /\ Len(two) >= 2
    OBVIOUS
  <2>3. code.mode = MODE_PAIR /\ code.bytes = two \o p
    <3>1. code = [mode |-> MODE_PAIR, bytes |-> two \o p]
      BY <1>2, <1>4, <1>13
    <3> HIDE DEF code, two, p
    <3> QED BY <3>1
  <2> HIDE DEF code, p, two
  <2>4. two \o p \in Seq(Nat) /\ Len(two \o p) = 2 + TileBytes
    <3>1. two \o p \in Seq(Nat) /\ Len(two \o p) = Len(two) + Len(p) /\ Len(two) \in Nat
      BY <2>1, <2>2, JoinIs
    <3> QED BY <1>11, <2>1, <2>2, <3>1
  <2>5. ColorBytes(code.mode) = 2 + TileBytes
    BY <1>10, <2>3 DEF ColorBytes
  <2>6. ASSUME NEW data \in Seq(Nat), NEW pos \in Nat, Holds(data, pos, code.bytes)
        PROVE  /\ ColorTile(code.mode, data, pos) \in TilesOf(Painted)
               /\ \A i \in 0 .. TilePixels - 1 :
                    As565(ColorTile(code.mode, data, pos)[i]) = Rendered(tile)[i]
    <3>1. Holds(data, pos, two) /\ Holds(data, pos + Len(two), p)
      BY <2>1, <2>2, <2>3, <2>6, HoldsBoth
    <3>2. pos + Len(two) = pos + 2 /\ pos + 2 \in Nat
      BY <2>2
    <3>3. ByteAt(data, pos) = a /\ ByteAt(data, pos + 1) = b
      BY <3>1, HoldsFew DEF two
    <3>4. RawBytes(data, pos + 2) = p
      <4>1. Holds(data, pos + 2, p) /\ (pos + 2) + TileBytes = (pos + 2) + Len(p)
        BY <2>1, <3>1, <3>2
      <4> DEFINE from == pos + 2
                 to == from + TileBytes
      <4>2. from \in Nat /\ Holds(data, from, p) /\ to = from + Len(p) /\ p \in Seq(Nat)
        BY <2>1, <3>2, <4>1
      <4>3. RawBytes(data, from) = SubSeq(data, from + 1, to)
        BY DEF RawBytes
      <4> HIDE DEF from, to
      <4>4. SubSeq(data, from + 1, to) = p
        BY <4>2, PartIs
      <4> QED BY <4>3, <4>4 DEF from
    <3>5. ASSUME NEW i \in 0 .. TilePixels - 1
          PROVE  ByteAt(data, pos + (IF get_bit(RawBytes(data, pos + 2), i) = 1 THEN 1 ELSE 0)) = Chosen(tile[i], top)
      <4>1. get_bit(RawBytes(data, pos + 2), i) = mask[i]
        BY <2>1, <3>4
      <4>2. pos + 0 = pos
        OBVIOUS
      <4>3. CASE mask[i] = 1
        BY <1>6, <3>3, <4>1, <4>3
      <4>4. CASE mask[i] # 1
        BY <1>6, <1>7, <3>3, <4>1, <4>2, <4>4
      <4> QED BY <4>3, <4>4
    <3>6. ColorTile(code.mode, data, pos) = [i \in 0 .. TilePixels - 1 |-> rgb332(Chosen(tile[i], top))]
      <4>1. ColorTile(code.mode, data, pos) =
              [i \in 0 .. TilePixels - 1 |->
                 rgb332(ByteAt(data, pos + (IF get_bit(RawBytes(data, pos + 2), i) = 1 THEN 1 ELSE 0)))]
        BY <1>10, <2>3 DEF ColorTile
      <4> QED BY <3>5, <4>1
    <3>7. \A i \in 0 .. TilePixels - 1 : Chosen(tile[i], top) \in Nat
      BY <1>7
    <3> QED BY <1>5, <1>8, <3>6, <3>7 DEF TilesOf
  <2>7. Len(code.bytes) = ColorBytes(code.mode) /\ Len(code.bytes) <= 2 + TileBytes
    <3>1. 2 + TileBytes <= 2 + TileBytes
      BY <1>11
    <3> QED BY <2>3, <2>4, <2>5, <3>1
  <2> QED BY <1>9, <1>10, <2>3, <2>4, <2>6, <2>7 DEF code
<1> QED BY <1>12, <1>13

\* What color_encode_frame adds for a tile.
Sent(e, t, tile) ==
  [bytes |-> e.bytes \o emit_tile_command(t, ColorEncoding(tile).mode, e.next) \o ColorEncoding(tile).bytes,
   next |-> t + 1, changed |-> e.changed + 1, shown |-> Put(e.shown, t, Rendered(tile))]
\* The display as the encoder takes it to be.
Shows(lcd, shown) == lcd \in FramesOf(Painted) /\ \A p \in FramePixels : As565(lcd[p]) = shown[p]
TileMax == 3 + 2 + TileBytes

\* What a frame must satisfy to be one the encoder can have got to.
Coloured(e, t) ==
  /\ e.bytes \in Seq(Nat) /\ e.next \in Nat /\ e.next <= t /\ e.changed \in Nat
  /\ e.shown \in FramesOf(Known)

\* The encoder goes on to be one: what a tile adds to the bytes of a frame is
\* bounded by TileMax.
LEMMA SentIs ==
  ASSUME TileAssumption, NEW t \in Tiles, NEW e, Coloured(e, t), NEW tile \in TilesOf(Colour)
  PROVE  LET f == Sent(e, t, tile)
         IN /\ Coloured(f, t + 1) /\ f.next = t + 1 /\ f.changed = e.changed + 1
            /\ f.shown = Put(e.shown, t, Rendered(tile))
            /\ Len(f.bytes) <= Len(e.bytes) + TileMax
            /\ f.bytes = e.bytes \o emit_tile_command(t, ColorEncoding(tile).mode, e.next)
                         \o ColorEncoding(tile).bytes
            /\ \A data \in Seq(Nat) : Holds(data, 0, f.bytes) => Holds(data, 0, e.bytes)
<1> DEFINE code == ColorEncoding(tile)
           f == Sent(e, t, tile)
           cmd == emit_tile_command(t, code.mode, e.next)
           s == Put(e.shown, t, Rendered(tile))
           all == e.bytes \o cmd \o code.bytes
<1>1. /\ code.mode \in Nat /\ code.bytes \in Seq(Nat) /\ Len(code.bytes) <= 2 + TileBytes
      /\ Rendered(tile) \in TilesOf(Known)
  BY ColorBack
<1>2. f = [bytes |-> all, next |-> t + 1, changed |-> e.changed + 1, shown |-> s]
  BY DEF Sent
<1> HIDE DEF code
<1>3. e.bytes \in Seq(Nat) /\ e.next \in Nat /\ e.next <= t /\ e.changed \in Nat /\ e.shown \in FramesOf(Known)
  BY DEF Coloured
<1>4. t \in Nat
  BY TileNumbers DEF Tiles
<1>5. cmd \in Seq(Nat) /\ Len(cmd) <= 3
  <2> DEFINE nothing == <<>>
             n == e.next
             m == code.mode
  <2>1. nothing \in Seq(Nat)
    OBVIOUS
  <2> HIDE DEF nothing, n, m
  <2>2. n \in Nat /\ n <= t /\ m \in Nat
    BY <1>1, <1>3 DEF n, m
  <2>3. emit_tile_command(t, m, n) \in Seq(Nat) /\ Len(emit_tile_command(t, m, n)) <= 3
    BY <1>4, <2>1, <2>2, CommandIs
  <2> QED BY <2>3 DEF n, m
<1>6. s \in FramesOf(Known)
  <2> DEFINE old == e.shown
             new == Rendered(tile)
  <2>1. old \in FramesOf(Known) /\ new \in TilesOf(Known) /\ TileAssumption /\ t \in Tiles
    BY <1>1, <1>3
  <2> HIDE DEF old, new
  <2>2. Put(old, t, new) \in FramesOf(Known)
    BY ONLY <2>1, PutIs
  <2> QED BY <2>2 DEF old, new
<1> HIDE DEF cmd, s
<1>7. all \in Seq(Nat) /\ Len(all) <= Len(e.bytes) + TileMax
  <2>1. e.bytes \o cmd \in Seq(Nat) /\ Len(e.bytes \o cmd) = Len(e.bytes) + Len(cmd)
    BY <1>3, <1>5, JoinIs
  <2>2. all \in Seq(Nat) /\ Len(all) = Len(e.bytes \o cmd) + Len(code.bytes)
    BY <1>1, <2>1, JoinIs
  <2> DEFINE a == Len(all)
             b == Len(e.bytes)
             c == Len(cmd)
             d == Len(code.bytes)
  <2>3. a = b + c + d /\ b \in Nat /\ c \in Nat /\ d \in Nat /\ c <= 3 /\ d <= 2 + TileBytes /\ TileBytes \in Nat
    <3>1. a = b + c + d
      <4> DEFINE bc == Len(e.bytes \o cmd)
      <4>1. bc = b + c /\ a = bc + d
        BY <2>1, <2>2
      <4> HIDE DEF bc, a, b, c, d
      <4> QED BY <4>1
    <3>2. b \in Nat /\ c \in Nat /\ d \in Nat
      BY <1>1, <1>3, <1>5
    <3>3. c <= 3 /\ d <= 2 + TileBytes
      BY <1>1, <1>5
    <3> HIDE DEF a, b, c, d
    <3> QED BY <3>1, <3>2, <3>3, TileNumbers
  <2> HIDE DEF a, b, c, d
  <2>4. a <= b + (3 + 2 + TileBytes)
    BY ONLY <2>3
  <2> QED BY <2>2, <2>4 DEF a, b, TileMax
<1>11. ASSUME NEW data \in Seq(Nat), Holds(data, 0, all) PROVE Holds(data, 0, e.bytes)
  <2>1. e.bytes \o cmd \in Seq(Nat)
    BY <1>3, <1>5, JoinIs
  <2>2. Holds(data, 0, e.bytes \o cmd)
    <3> DEFINE bc == e.bytes \o cmd
    <3> HIDE DEF bc
    <3>1. bc \in Seq(Nat) /\ Holds(data, 0, bc \o code.bytes)
      BY <1>11, <2>1 DEF bc
    <3>2. Holds(data, 0, bc)
      BY <1>1, <3>1, HoldsBoth
    <3> QED BY <3>2 DEF bc
  <2> QED BY <1>3, <1>5, <2>2, HoldsBoth
<1> HIDE DEF f, all
<1>8. f.bytes = all /\ f.next = t + 1 /\ f.changed = e.changed + 1 /\ f.shown = s
  BY <1>2
<1>9. t + 1 \in Nat /\ t + 1 <= t + 1 /\ e.changed + 1 \in Nat
  BY <1>3, <1>4
<1>10. Coloured(f, t + 1)
  BY <1>6, <1>7, <1>8, <1>9 DEF Coloured
<1> QED BY <1>7, <1>8, <1>10, <1>11 DEF f, s, all, cmd, code

\* What the player does with the command that brings it from e to f.
Paints(e, f, bits, lcd, data) ==
  \E l : /\ Shows(l, f.shown)
         /\ Obey(PlayerAt(e, bits, lcd), data, Command(data, Len(e.bytes), e.next)) = PlayerAt(f, bits, l)

\* The player paints the two colours of the tile a command brings where the
\* encoder takes them to be shown.
LEMMA ColorObeyed ==
  ASSUME TileAssumption, kind # "PCV3", NEW t \in Tiles, NEW e, Coloured(e, t), NEW tile \in TilesOf(Colour),
         NEW bits, NEW lcd, Shows(lcd, e.shown), NEW data \in Seq(Nat), Holds(data, 0, Sent(e, t, tile).bytes)
  PROVE  LET f == Sent(e, t, tile)
         IN /\ Holds(data, 0, e.bytes) /\ Len(e.bytes) < Len(f.bytes) /\ Len(f.bytes) <= Len(data)
            /\ Paints(e, f, bits, lcd, data)
<1> DEFINE code == ColorEncoding(tile)
           f == Sent(e, t, tile)
           cmd == emit_tile_command(t, code.mode, e.next)
           start == Len(e.bytes) + Len(cmd)
           c == Command(data, Len(e.bytes), e.next)
           paint == ColorTile(code.mode, data, start)
           l == Put(lcd, t, paint)
<1>1. /\ Coloured(f, t + 1) /\ f.next = t + 1 /\ f.changed = e.changed + 1
      /\ f.shown = Put(e.shown, t, Rendered(tile))
      /\ f.bytes = e.bytes \o cmd \o code.bytes
  BY SentIs
<1>2. /\ code.mode \in Nat /\ code.mode \in {MODE_SOLID, MODE_PAIR} /\ code.bytes \in Seq(Nat)
      /\ Len(code.bytes) = ColorBytes(code.mode) /\ Rendered(tile) \in TilesOf(Known)
      /\ \A d \in Seq(Nat), pos \in Nat :
           Holds(d, pos, code.bytes) =>
             /\ ColorTile(code.mode, d, pos) \in TilesOf(Painted)
             /\ \A i \in 0 .. TilePixels - 1 : As565(ColorTile(code.mode, d, pos)[i]) = Rendered(tile)[i]
  BY ColorBack
<1>3. Holds(data, 0, f.bytes)
  OBVIOUS
<1> HIDE DEF code, f
<1>4. /\ f.bytes \in Seq(Nat) /\ Holds(data, 0, e.bytes) /\ Len(e.bytes) < Len(f.bytes) /\ Len(f.bytes) <= Len(data)
      /\ Len(f.bytes) = start + Len(code.bytes) /\ start \in Nat /\ Holds(data, start, code.bytes)
      /\ c = [ok |-> TRUE, mode |-> code.mode, tile |-> t, pos |-> start]
  <2> DEFINE b == e.bytes
             n == e.next
             m == code.mode
             o == code.bytes
  <2>1. /\ b \in Seq(Nat) /\ n \in Nat /\ n <= t /\ m \in Nat /\ o \in Seq(Nat)
        /\ f.bytes = b \o emit_tile_command(t, m, n) \o o
    BY <1>1, <1>2 DEF Coloured
  <2>2. start = Len(b) + Len(emit_tile_command(t, m, n)) /\ c = Command(data, Len(b), n)
    OBVIOUS
  <2> HIDE DEF b, n, m, o, start, c
  <2>3. Holds(data, 0, b \o emit_tile_command(t, m, n) \o o)
    BY <1>3, <2>1
  <2>4. LET all == b \o emit_tile_command(t, m, n) \o o
            from == Len(b) + Len(emit_tile_command(t, m, n))
         IN /\ all \in Seq(Nat) /\ Holds(data, 0, b) /\ Len(b) \in Nat /\ Len(b) < Len(all)
            /\ Len(all) <= Len(data) /\ Len(all) = from + Len(o) /\ from \in Nat
            /\ Holds(data, from, o)
            /\ Command(data, Len(b), n) = [ok |-> TRUE, mode |-> m, tile |-> t, pos |-> from]
    BY <2>1, <2>3, AddedIs
  <2> QED BY <2>1, <2>2, <2>4 DEF b, m, o
<1> HIDE DEF c, start
<1>5. paint \in TilesOf(Painted) /\ \A i \in 0 .. TilePixels - 1 : As565(paint[i]) = Rendered(tile)[i]
  BY <1>2, <1>4
<1> HIDE DEF paint
<1>6. c.ok = TRUE /\ c.mode = code.mode /\ c.tile = t /\ c.pos = start /\ ~(t >= TileCount)
  <2>1. ~(t >= TileCount)
    BY TileNumbers DEF Tiles
  <2> QED BY <1>4, <2>1
<1>7. ColorTile(c.mode, data, c.pos) = paint /\ c.pos + ColorBytes(c.mode) = Len(f.bytes)
      /\ ~(c.pos + ColorBytes(c.mode) > Len(data)) /\ ~(c.mode \notin {MODE_SOLID, MODE_PAIR})
  <2>1. c.pos + ColorBytes(c.mode) = Len(f.bytes)
    BY <1>2, <1>4, <1>6
  <2>2. ~(Len(f.bytes) > Len(data))
    BY <1>4
  <2> QED BY <1>2, <1>6, <2>1, <2>2 DEF paint
<1> DEFINE s == PlayerAt(e, bits, lcd)
<1>8. s.bits = bits /\ s.lcd = lcd /\ s.tiles = e.changed
  BY DEF PlayerAt
<1> HIDE DEF s
<1>9. Obey(s, data, c) = PlayColorTile(s, data, c)
  BY <1>6 DEF Obey
<1>10. PlayColorTile(s, data, c) = PlayerAt(f, bits, l)
  <2>1. PlayColorTile(s, data, c) =
          [ok |-> TRUE, bits |-> s.bits, lcd |-> Put(s.lcd, c.tile, ColorTile(c.mode, data, c.pos)),
           pos |-> c.pos + ColorBytes(c.mode), next |-> c.tile + 1, tiles |-> s.tiles + 1]
    BY <1>7 DEF PlayColorTile
  <2> QED BY <1>1, <1>6, <1>7, <1>8, <2>1 DEF PlayerAt
<1>11. Shows(l, f.shown)
  <2> DEFINE old == e.shown
             new == Rendered(tile)
  <2>1. lcd \in FramesOf(Painted) /\ \A p \in FramePixels : As565(lcd[p]) = old[p]
    BY DEF Shows
  <2>2. l \in FramesOf(Painted)
    <3>1. lcd \in FramesOf(Painted) /\ paint \in TilesOf(Painted) /\ TileAssumption /\ t \in Tiles
      BY <1>5, <2>1
    <3>2. Put(lcd, t, paint) \in FramesOf(Painted)
      BY ONLY <3>1, PutIs
    <3> QED BY <3>2
  <2>3. \A i \in 0 .. TilePixels - 1 : As565(paint[i]) = new[i]
    BY <1>5
  <2>4. f.shown = Put(old, t, new)
    BY <1>1
  <2> HIDE DEF old, new
  <2>5. ASSUME NEW p \in FramePixels PROVE As565(l[p]) = f.shown[p]
    <3>1. PlaceIn(p) \in 0 .. TilePixels - 1
      BY PlaceIs
    <3>2. l[p] = IF TileAt(p) = t THEN paint[PlaceIn(p)] ELSE lcd[p]
      BY DEF Put
    <3>3. f.shown[p] = IF TileAt(p) = t THEN new[PlaceIn(p)] ELSE old[p]
      BY <2>4 DEF Put
    <3> HIDE DEF l
    <3> QED BY <2>1, <2>3, <3>1, <3>2, <3>3
  <2> HIDE DEF l
  <2> QED BY <2>2, <2>5 DEF Shows
<1> HIDE DEF l
<1>12. Paints(e, f, bits, lcd, data)
  BY <1>9, <1>10, <1>11 DEF Paints, c, s
<1> QED BY <1>4, <1>12 DEF f

\* A tile of the display is the two colours of the frame, or lags behind them
\* by few pixels.
Lagging(shown, current, t) ==
  {i \in 0 .. TilePixels - 1 : TileOf(shown, t)[i] # Rendered(TileOf(current, t))[i]}
Near(shown, current, t, min) ==
  Cardinality(Lagging(shown, current, t)) = 0 \/ Cardinality(Lagging(shown, current, t)) < min
Kept(current, previous, t, min) ==
  Cardinality({i \in DOMAIN Rendered(TileOf(current, t)) :
                 Rendered(TileOf(current, t))[i] # TileOf(previous, t)[i]}) < min

\* A tile of color_encode_frame is left as it is, or sent.
LEMMA ColorStep ==
  ASSUME NEW e, NEW t \in Nat, NEW current, NEW previous, NEW min
  PROVE  ColorEmitted(e, t + 1, current, previous, min) =
           IF Kept(current, previous, t, min) THEN e ELSE Sent(e, t, TileOf(current, t))
<1>1. (t + 1) - 1 = t
  OBVIOUS
<1> DEFINE tile == TileOf(current, t)
           old == TileOf(previous, t)
           new == Rendered(tile)
           code == ColorEncoding(tile)
<1>2. ColorEmitted(e, t + 1, current, previous, min) =
        IF Cardinality({k \in DOMAIN new : new[k] # old[k]}) < min THEN e
        ELSE [bytes |-> e.bytes \o emit_tile_command(t, code.mode, e.next) \o code.bytes,
              next |-> t + 1, changed |-> e.changed + 1, shown |-> Put(e.shown, t, new)]
  BY <1>1 DEF ColorEmitted
<1>3. Sent(e, t, tile) =
        [bytes |-> e.bytes \o emit_tile_command(t, code.mode, e.next) \o code.bytes,
         next |-> t + 1, changed |-> e.changed + 1, shown |-> Put(e.shown, t, new)]
  BY DEF Sent
<1> QED BY <1>2, <1>3 DEF Kept

\* Which tiles of the frame the display shows already.
ShownTo(shown, current, previous, t, min) ==
  \A u \in Tiles : IF u < t THEN Near(shown, current, u, min) ELSE TileOf(shown, u) = TileOf(previous, u)

\* With the next tile, left as it is or sent, one more tile is near that of the
\* current frame.
LEMMA ShownOn ==
  ASSUME TileAssumption, NEW shown \in FramesOf(Known), NEW current \in FramesOf(Colour), NEW previous,
         NEW t \in Tiles, NEW min, ShownTo(shown, current, previous, t, min)
  PROVE  /\ Kept(current, previous, t, min) => ShownTo(shown, current, previous, t + 1, min)
         /\ ShownTo(Put(shown, t, Rendered(TileOf(current, t))), current, previous, t + 1, min)
<1>1. t \in Nat /\ (\A u \in Tiles : u \in Nat) /\ ~(t < t) /\ t < t + 1
  BY TileNumbers DEF Tiles
<1>2. ASSUME NEW u \in Tiles, u # t PROVE u < t <=> u < t + 1
  BY <1>1, <1>2
<1> DEFINE new == Rendered(TileOf(current, t))
<1>3. new \in TilesOf(Known)
  <2>1. TileOf(current, t) \in TilesOf(Colour)
    BY TileOfIs DEF TilesOf, FramesOf
  <2> QED BY <2>1, ColorBack
<1>4. DOMAIN new = 0 .. TilePixels - 1
  BY <1>3 DEF TilesOf
<1> HIDE DEF new
<1>5. ASSUME Kept(current, previous, t, min) PROVE ShownTo(shown, current, previous, t + 1, min)
  <2>1. TileOf(shown, t) = TileOf(previous, t)
    BY <1>1 DEF ShownTo
  <2>2. Lagging(shown, current, t) = {i \in DOMAIN new : new[i] # TileOf(previous, t)[i]}
    BY <1>4, <2>1 DEF Lagging, new
  <2>3. Near(shown, current, t, min)
    <3>1. Cardinality({i \in DOMAIN new : new[i] # TileOf(previous, t)[i]}) < min
      BY <1>5 DEF Kept, new
    <3>2. Cardinality(Lagging(shown, current, t)) < min
      BY <2>2, <3>1
    <3> QED BY <3>2 DEF Near
  <2>4. ASSUME NEW u \in Tiles
        PROVE  IF u < t + 1 THEN Near(shown, current, u, min) ELSE TileOf(shown, u) = TileOf(previous, u)
    <3>1. CASE u = t
      BY <1>1, <2>3, <3>1
    <3>2. CASE u # t
      BY <1>2, <3>2 DEF ShownTo
    <3> QED BY <3>1, <3>2
  <2> QED BY <2>4 DEF ShownTo
<1>6. ShownTo(Put(shown, t, new), current, previous, t + 1, min)
  <2> DEFINE s == Put(shown, t, new)
  <2>1. TileOf(s, t) = new /\ \A u \in Tiles : u # t => TileOf(s, u) = TileOf(shown, u)
    <3>1. shown \in FramesOf(Known) /\ new \in TilesOf(Known) /\ TileAssumption /\ t \in Tiles
      BY <1>3
    <3>2. TileOf(Put(shown, t, new), t) = new
          /\ \A u \in Tiles : u # t => TileOf(Put(shown, t, new), u) = TileOf(shown, u)
      BY ONLY <3>1, PutIs
    <3> QED BY <3>2
  <2> HIDE DEF s
  <2>2. Near(s, current, t, min)
    <3>1. Lagging(s, current, t) = {}
      BY <2>1 DEF Lagging, new
    <3>2. Cardinality({}) = 0
      BY FS_EmptySet
    <3> QED BY <3>1, <3>2 DEF Near
  <2>3. ASSUME NEW u \in Tiles, u # t PROVE Near(s, current, u, min) <=> Near(shown, current, u, min)
    BY <2>1, <2>3 DEF Near, Lagging
  <2>4. ASSUME NEW u \in Tiles
        PROVE  IF u < t + 1 THEN Near(s, current, u, min) ELSE TileOf(s, u) = TileOf(previous, u)
    <3>1. CASE u = t
      BY <1>1, <2>2, <3>1
    <3>2. CASE u # t
      BY <1>2, <2>1, <2>3, <3>2 DEF ShownTo
    <3> QED BY <3>1, <3>2
  <2> QED BY <2>4 DEF ShownTo, s
<1> QED BY <1>5, <1>6 DEF new

\* In colour the player gets from the bytes of a frame the display that the
\* encoder takes it to have, and that is near the frame in every tile.
THEOREM ColorFrameBack ==
  ASSUME TileAssumption, kind # "PCV3", NEW current \in FramesOf(Colour), NEW previous \in FramesOf(Known), NEW min
  PROVE  LET code == color_encode_frame(current, previous, min)
         IN /\ Coloured(code, TileCount) /\ Len(code.bytes) <= TileCount * TileMax
            /\ \A t \in Tiles : Near(code.shown, current, t, min)
            /\ Shows(player.lcd, previous) =>
                 \E l : Shows(l, code.shown) /\ Play(code.bytes) = PlayerAt(code, player.bits, l)
<1>1. TileCount \in Nat /\ TileCount \in 0 .. TileCount /\ TileMax \in Nat
  BY TileNumbers DEF TileMax
<1>2. PICK Z : /\ color_encode_frame(current, previous, min) = Z[TileCount]
               /\ Z[0] = [bytes |-> <<>>, next |-> 0, changed |-> 0, shown |-> previous]
               /\ \A i \in 1 .. TileCount : Z[i] = ColorEmitted(Z[i - 1], i, current, previous, min)
  BY <1>1, ColorEncodeIs
<1>3. ASSUME NEW t \in 0 .. TileCount - 1
      PROVE  /\ t \in Tiles /\ t + 1 \in 0 .. TileCount /\ TileOf(current, t) \in TilesOf(Colour)
             /\ Z[t + 1] = IF Kept(current, previous, t, min) THEN Z[t] ELSE Sent(Z[t], t, TileOf(current, t))
  <2>1. t + 1 \in 1 .. TileCount /\ (t + 1) - 1 = t /\ t + 1 \in 0 .. TileCount /\ t \in Nat
    BY <1>1
  <2>2. t \in Tiles
    BY DEF Tiles
  <2>3. TileOf(current, t) \in TilesOf(Colour)
    BY <2>2, TileOfIs DEF TilesOf, FramesOf
  <2>4. Z[t + 1] = ColorEmitted(Z[t], t + 1, current, previous, min)
    BY <1>2, <2>1
  <2>5. ColorEmitted(Z[t], t + 1, current, previous, min) =
          IF Kept(current, previous, t, min) THEN Z[t] ELSE Sent(Z[t], t, TileOf(current, t))
    BY <2>1, ColorStep
  <2> QED BY <2>1, <2>2, <2>3, <2>4, <2>5
<1> DEFINE Good(e, t) == /\ Coloured(e, t) /\ Len(e.bytes) <= t * TileMax
                         /\ ShownTo(e.shown, current, previous, t, min)
<1>4. ASSUME NEW t \in 0 .. TileCount PROVE Good(Z[t], t)
  <2> DEFINE S == {j \in 0 .. TileCount : Good(Z[j], j)}
  <2>1. 0 \in S
    <3>1. /\ Z[0].bytes = <<>> /\ Z[0].next = 0 /\ Z[0].changed = 0 /\ Z[0].shown = previous
          /\ <<>> \in Seq(Nat) /\ 0 \in Nat /\ 0 <= 0 /\ 0 \in 0 .. TileCount
      BY <1>1, <1>2
    <3>2. Coloured(Z[0], 0)
      BY <3>1 DEF Coloured
    <3>3. Len(Z[0].bytes) <= 0 * TileMax
      <4>1. Len(<<>>) <= 0 /\ 0 * TileMax = 0
        BY <1>1
      <4> QED BY <3>1, <4>1
    <3>4. ShownTo(Z[0].shown, current, previous, 0, min)
      <4>1. \A u \in Tiles : ~(u < 0)
        BY <1>1 DEF Tiles
      <4> QED BY <3>1, <4>1 DEF ShownTo
    <3> QED BY <3>1, <3>2, <3>3, <3>4
  <2>2. Steps(S, TileCount)
    <3> SUFFICES ASSUME NEW q \in 0 .. TileCount - 1, q \in S PROVE q + 1 \in S
      BY DEF Steps
    <3>1. Good(Z[q], q)
      OBVIOUS
    <3> HIDE DEF S
    <3> DEFINE e == Z[q]
               f == Z[q + 1]
    <3>2. Coloured(e, q) /\ Len(e.bytes) <= q * TileMax /\ ShownTo(e.shown, current, previous, q, min)
      BY <3>1
    <3>3. /\ q \in Tiles /\ q + 1 \in 0 .. TileCount /\ TileOf(current, q) \in TilesOf(Colour)
          /\ f = IF Kept(current, previous, q, min) THEN e ELSE Sent(e, q, TileOf(current, q))
      BY <1>3
    <3> HIDE DEF e, f
    <3>4. /\ e.bytes \in Seq(Nat) /\ e.next \in Nat /\ e.next <= q /\ e.changed \in Nat
          /\ e.shown \in FramesOf(Known) /\ Len(e.bytes) \in Nat
      BY <3>2 DEF Coloured
    <3>5. q * TileMax \in Nat /\ (q + 1) * TileMax = q * TileMax + TileMax /\ q \in Nat
      BY <1>1
    <3>6. CASE Kept(current, previous, q, min)
      <4>1. f = e
        BY <3>3, <3>6
      <4>2. Coloured(e, q + 1)
        <5>1. e.next <= q + 1
          BY <3>4, <3>5
        <5> QED BY <3>4, <5>1 DEF Coloured
      <4>3. Len(e.bytes) <= (q + 1) * TileMax
        <5> DEFINE y == q * TileMax
                   x == Len(e.bytes)
        <5>1. x <= y /\ y \in Nat /\ x \in Nat
          BY <3>2, <3>4, <3>5
        <5> HIDE DEF x, y
        <5>2. x <= y + TileMax
          BY <1>1, <5>1
        <5> QED BY <3>5, <5>2 DEF x, y
      <4>4. ShownTo(e.shown, current, previous, q + 1, min)
        BY <3>2, <3>3, <3>4, <3>6, ShownOn
      <4>5. Good(f, q + 1)
        BY <4>1, <4>2, <4>3, <4>4
      <4> HIDE DEF Good
      <4> QED BY <3>3, <4>5 DEF S, f
    <3>7. CASE ~Kept(current, previous, q, min)
      <4> DEFINE tile == TileOf(current, q)
      <4>1. f = Sent(e, q, tile)
        BY <3>3, <3>7
      <4>2. /\ Coloured(f, q + 1) /\ f.shown = Put(e.shown, q, Rendered(tile))
            /\ Len(f.bytes) <= Len(e.bytes) + TileMax
        <5>1. tile \in TilesOf(Colour)
          BY <3>3
        <5> HIDE DEF tile
        <5>2. /\ Coloured(Sent(e, q, tile), q + 1)
              /\ Sent(e, q, tile).shown = Put(e.shown, q, Rendered(tile))
              /\ Len(Sent(e, q, tile).bytes) <= Len(e.bytes) + TileMax
          BY <3>2, <3>3, <5>1, SentIs
        <5> QED BY <4>1, <5>2
      <4>3. Len(f.bytes) <= (q + 1) * TileMax
        <5> DEFINE y == q * TileMax
                   x == Len(e.bytes)
                   z == Len(f.bytes)
        <5>1. x <= y /\ y \in Nat /\ x \in Nat /\ z <= x + TileMax /\ z \in Nat
          <6>1. f.bytes \in Seq(Nat)
            BY <4>2 DEF Coloured
          <6> QED BY <3>2, <3>4, <3>5, <4>2, <6>1
        <5> HIDE DEF x, y, z
        <5>2. z <= y + TileMax
          BY <1>1, <5>1
        <5> QED BY <3>5, <5>2 DEF z, y
      <4>4. ShownTo(f.shown, current, previous, q + 1, min)
        <5>1. ShownTo(Put(e.shown, q, Rendered(TileOf(current, q))), current, previous, q + 1, min)
          BY <3>2, <3>3, <3>4, ShownOn
        <5> QED BY <4>2, <5>1
      <4>5. Good(f, q + 1)
        BY <4>2, <4>3, <4>4
      <4> HIDE DEF Good
      <4> QED BY <3>3, <4>5 DEF S, f
    <3> QED BY <3>6, <3>7
  <2> HIDE DEF S
  <2>3. t \in S
    BY <1>1, <2>1, <2>2, UpTo
  <2> QED BY <2>3 DEF S
<1> DEFINE D == Z[TileCount].bytes
<1> HIDE DEF D
<1>5. D \in Seq(Nat) /\ Len(D) \in Nat
  BY <1>1, <1>4 DEF D, Coloured
<1>a. Len(D) \in Nat
  BY <1>5
<1>6. PICK Y : /\ Play(D) = Y[Len(D)]
               /\ Y[0] = Begun
               /\ \A i \in 1 .. Len(D) : Y[i] = Goes(D, Y[i - 1])
  BY <1>a, PlayedIs
<1> DEFINE Here == Shows(player.lcd, previous)
           Plays(e) == \E n, l : n \in 0 .. Len(D) /\ n <= Len(e.bytes) /\ Shows(l, e.shown)
                                                /\ Y[n] = PlayerAt(e, player.bits, l)
           P(e) == Holds(D, 0, e.bytes) /\ Here => Plays(e)
<1>8. P(Z[0])
  <2>1. Len(Z[0].bytes) = 0 /\ 0 \in 0 .. Len(D) /\ 0 <= 0 /\ Z[0].shown = previous
    BY <1>2, <1>5
  <2>2. PlayerAt(Z[0], player.bits, player.lcd) = Y[0]
    BY <1>2, <1>6 DEF PlayerAt, Begun
  <2> QED BY <2>1, <2>2
<1> HIDE DEF Here, Plays, Good
<1>9. ASSUME NEW t \in 0 .. TileCount - 1, P(Z[t]) PROVE P(Z[t + 1])
  <2> DEFINE e == Z[t]
             f == Z[t + 1]
             tile == TileOf(current, t)
             c == Command(D, Len(e.bytes), e.next)
  <2>1. t \in Tiles /\ tile \in TilesOf(Colour) /\ f = IF Kept(current, previous, t, min) THEN e ELSE Sent(e, t, tile)
    BY <1>3
  <2>2. Coloured(e, t)
    <3>1. t \in 0 .. TileCount
      BY <1>1
    <3> QED BY <1>4, <3>1 DEF Good
  <2>3. P(e)
    BY <1>9
  <2> HIDE DEF e, f, tile
  <2>4. SUFFICES ASSUME Holds(D, 0, f.bytes), Here PROVE Plays(f)
    BY DEF f
  <2>5. CASE Kept(current, previous, t, min)
    <3>1. f = e
      BY <2>1, <2>5
    <3> QED BY <2>3, <2>4, <3>1
  <2>6. CASE ~Kept(current, previous, t, min)
    <3>1. f = Sent(e, t, tile) /\ Coloured(f, t + 1)
      <4>1. f = Sent(e, t, tile)
        BY <2>1, <2>6
      <4>2. Coloured(Sent(e, t, tile), t + 1)
        BY <2>1, <2>2, SentIs
      <4> QED BY <4>1, <4>2
    <3>2. ASSUME NEW l, Shows(l, e.shown)
          PROVE  /\ Holds(D, 0, e.bytes) /\ Len(e.bytes) < Len(f.bytes) /\ Len(f.bytes) <= Len(D)
                 /\ Paints(e, f, player.bits, l, D)
      <4> DEFINE bits == player.bits
      <4> HIDE DEF bits
      <4>1. Holds(D, 0, Sent(e, t, tile).bytes)
        BY <2>4, <3>1
      <4> DEFINE g == Sent(e, t, tile)
      <4>2. /\ Holds(D, 0, e.bytes) /\ Len(e.bytes) < Len(g.bytes) /\ Len(g.bytes) <= Len(D)
            /\ Paints(e, g, bits, l, D)
        <5>1. /\ TileAssumption /\ kind # "PCV3" /\ t \in Tiles /\ Coloured(e, t) /\ tile \in TilesOf(Colour)
              /\ Shows(l, e.shown) /\ D \in Seq(Nat) /\ Holds(D, 0, Sent(e, t, tile).bytes)
          BY <1>5, <2>1, <2>2, <3>2, <4>1
        <5> QED BY ONLY <5>1, ColorObeyed
      <4> HIDE DEF g
      <4>3. f = g
        BY <3>1 DEF g
      <4> QED BY <4>2, <4>3 DEF bits
    <3> HIDE DEF c
    <3>3. /\ Len(e.bytes) \in Nat /\ Len(f.bytes) \in Nat
      BY <2>2, <3>1 DEF Coloured
    <3>4. Holds(D, 0, e.bytes)
      <4>1. \A data \in Seq(Nat) : Holds(data, 0, f.bytes) => Holds(data, 0, e.bytes)
        BY <2>1, <2>2, <3>1, SentIs
      <4> QED BY <1>5, <2>4, <4>1
    <3>5. PICK n, l : n \in 0 .. Len(D) /\ n <= Len(e.bytes) /\ Shows(l, e.shown)
              /\ Y[n] = PlayerAt(e, player.bits, l)
      BY <2>3, <2>4, <3>4 DEF Plays
    <3>6. PICK m : Shows(m, f.shown) /\ Obey(PlayerAt(e, player.bits, l), D, c) = PlayerAt(f, player.bits, m)
      BY <3>2, <3>5 DEF Paints, c
    <3>7. n + 1 \in 1 .. Len(D) /\ n + 1 \in 0 .. Len(D) /\ (n + 1) - 1 = n /\ n + 1 <= Len(f.bytes)
          /\ ~(Len(e.bytes) >= Len(D))
      BY <1>5, <3>2, <3>3, <3>5
    <3>8. Y[n + 1] = IF ~Y[n].ok \/ Y[n].pos >= Len(D) THEN Y[n]
                     ELSE Obey(Y[n], D, Command(D, Y[n].pos, Y[n].next))
      BY <1>6, <3>7 DEF Goes
    <3>9. Y[n].ok = TRUE /\ Y[n].pos = Len(e.bytes) /\ Y[n].next = e.next
      BY <3>5 DEF PlayerAt
    <3>10. Y[n + 1] = Obey(Y[n], D, c)
      BY <3>7, <3>8, <3>9 DEF c
    <3> QED BY <3>5, <3>6, <3>7, <3>10 DEF Plays
  <2> QED BY <2>5, <2>6
<1>10. P(Z[TileCount])
  <2> DEFINE S == {j \in 0 .. TileCount : P(Z[j])}
  <2> HIDE DEF P
  <2>1. 0 \in S
    BY <1>1, <1>8
  <2>2. Steps(S, TileCount)
    <3>1. ASSUME NEW j \in 0 .. TileCount - 1, j \in S PROVE j + 1 \in S
      <4>1. P(Z[j])
        BY <3>1
      <4> HIDE DEF S
      <4>2. P(Z[j + 1]) /\ j + 1 \in 0 .. TileCount
        BY <1>3, <1>9, <4>1
      <4> QED BY <4>2 DEF S
    <3> HIDE DEF S
    <3> QED BY <3>1 DEF Steps
  <2> HIDE DEF S
  <2>3. TileCount \in S
    BY <1>1, <2>1, <2>2, UpTo
  <2> QED BY <2>3 DEF S
<1> DEFINE code == Z[TileCount]
<1>11. D = code.bytes /\ Holds(D, 0, code.bytes)
  <2>1. D = code.bytes
    BY DEF D
  <2> HIDE DEF code
  <2>2. 0 + Len(D) <= Len(D) /\ \A i \in 1 .. Len(D) : 0 + i = i
    BY <1>5
  <2>3. Holds(D, 0, D)
    BY <2>2 DEF Holds
  <2> QED BY <2>1, <2>3
<1>12. Here => Plays(code)
  BY <1>10, <1>11
<1>13. Good(code, TileCount)
  BY <1>1, <1>4
<1> HIDE DEF code
<1>14. ASSUME Here PROVE \E l : Shows(l, code.shown) /\ Play(D) = PlayerAt(code, player.bits, l)
  <2>1. PICK n, l : n \in 0 .. Len(D) /\ Shows(l, code.shown) /\ Y[n] = PlayerAt(code, player.bits, l)
    BY <1>12, <1>14 DEF Plays
  <2>2. Y[n].pos = Len(D)
    BY <1>11, <2>1 DEF PlayerAt
  <2>3. \A i \in 1 .. Len(D) : Y[i - 1] = Y[n] => Y[i] = Y[i - 1]
    <3>1. Len(D) >= Len(D)
      BY <1>5
    <3> QED BY <1>6, <2>2, <3>1 DEF Goes
  <2>4. Y[Len(D)] = Y[n]
    <3>1. Len(D) \in Nat /\ n \in 0 .. Len(D)
      BY <1>5, <2>1
    <3> QED BY ONLY <2>3, <3>1, Still
  <2> QED BY <1>6, <2>1, <2>4
<1>15. \A t \in Tiles : Near(code.shown, current, t, min)
  <2>1. \A u \in Tiles : u < TileCount
    BY <1>1 DEF Tiles
  <2> QED BY <1>13, <2>1 DEF Good, ShownTo
<1>16. color_encode_frame(current, previous, min) = code
  BY <1>2 DEF code
<1> QED BY <1>11, <1>13, <1>14, <1>15, <1>16 DEF Here, Good

(***************************************************************************)
(* The stream: for each frame of it what the encoder took to be shown      *)
(* after it (K) and its statistics (C).                                    *)
(***************************************************************************)
Kinds == {"PCV3", "PCVC"}
CodeOf(k, current, previous) ==
  IF k = "PCV3" THEN encode_frame(current, previous) ELSE color_encode_frame(current, previous, MinChanged)
ShownBy(k, current, code) == IF k = "PCV3" THEN current ELSE code.shown
FrameIn(k) == IF k = "PCV3" THEN FramesOf({0, 1}) ELSE FramesOf(Colour)
ShownIn(k) == IF k = "PCV3" THEN FramesOf({0, 1}) ELSE FramesOf(Known)
FirstOf(k) == IF k = "PCV3" THEN BlackFrame ELSE BlackColors
Sums(c) == c.bytes \in Nat /\ c.bytes >= 14 /\ c.tiles \in Nat
Wrote(k, current, previous, shown, before, after, frame) ==
  LET code == CodeOf(k, current, previous)
  IN /\ current \in FrameIn(k) /\ Len(code.bytes) <= FrameMax
     /\ frame = Stored(code.bytes) /\ shown = ShownBy(k, current, code)
     /\ after = Counted(before, frame, code.changed)
History(k, src, frames, K, C) ==
  /\ K[0] = FirstOf(k) /\ C[0] = NoStats
  /\ \A n \in 1 .. Len(frames) : Wrote(k, src[n], K[n - 1], K[n], C[n - 1], C[n], frames[n])
  /\ \A n \in 0 .. Len(frames) : K[n] \in ShownIn(k) /\ Sums(C[n])
\* the player after so many frames
PlayerIs(k, n, p, K, C) ==
  /\ p.ok = TRUE /\ p.next = n + 1 /\ p.tiles = C[n].tiles /\ p.payload = C[n].bytes - 14
  /\ IF k = "PCV3" THEN p.bits = K[n] /\ p.lcd = K[n] ELSE Shows(p.lcd, K[n])

\* A frame comes out of the stream as it went in.
LEMMA StoredIs ==
  ASSUME LzssAssumption, FrameMax \in Nat, NEW bytes \in Seq(Nat), Len(bytes) <= FrameMax
  PROVE  /\ Payload(Stored(bytes)) = [ok |-> TRUE, out |-> bytes]
         /\ Stored(bytes).raw = Len(bytes) /\ StoredBytes(Stored(bytes)) \in Nat
<1> DEFINE small == lzss_compress(bytes)
           s == Stored(bytes)
           l == Len(bytes)
<1>1. small \in Seq(Nat) /\ lzss_decompress(small, l) = [ok |-> TRUE, out |-> bytes]
  BY RoundTrip
<1>2. s = Smaller(bytes, small)
  BY DEF Stored
<1>3. l \in Nat /\ ~(l > FrameMax) /\ (l <= FrameMax) = TRUE
  OBVIOUS
<1> HIDE DEF small, s
<1>4. CASE Len(small) + 2 < Len(bytes)
  <2>1. s = [compressed |-> TRUE, raw |-> l, data |-> small]
    BY <1>2, <1>4 DEF Smaller
  <2> HIDE DEF l
  <2>2. s.compressed = TRUE /\ s.raw = l /\ s.data = small
    BY <2>1
  <2>3. Payload(s) = [ok |-> TRUE, out |-> bytes]
    BY <1>1, <1>3, <2>2 DEF Payload
  <2>4. StoredBytes(s) \in Nat
    <3>1. Len(small) \in Nat
      BY <1>1
    <3> QED BY <2>2, <3>1 DEF StoredBytes, HeadBytes
  <2> QED BY <2>2, <2>3, <2>4 DEF s, l
<1>5. CASE ~(Len(small) + 2 < Len(bytes))
  <2>1. s = [compressed |-> FALSE, raw |-> l, data |-> bytes]
    BY <1>2, <1>5 DEF Smaller
  <2>2. Len(bytes) \in Nat
    BY <1>3
  <2> HIDE DEF l
  <2>3. s.compressed = FALSE /\ s.raw = l /\ s.data = bytes
    BY <2>1
  <2>4. (kind = "PCVC" => s.raw <= FrameMax) = TRUE
    BY <1>3, <2>3
  <2>5. Payload(s) = [ok |-> TRUE, out |-> bytes]
    BY <2>3, <2>4 DEF Payload
  <2>6. StoredBytes(s) \in Nat
    BY <2>2, <2>3 DEF StoredBytes, HeadBytes
  <2> QED BY <2>3, <2>5, <2>6 DEF s, l
<1> QED BY <1>4, <1>5

\* What the encoders make of a frame.
LEMMA CodeIs ==
  ASSUME TileAssumption, VideoAssumption, kind \in Kinds, NEW current \in FrameIn(kind),
         NEW previous \in ShownIn(kind), NEW code, code = CodeOf(kind, current, previous)
  PROVE  /\ code.bytes \in Seq(Nat) /\ code.changed \in Nat /\ ShownBy(kind, current, code) \in ShownIn(kind)
         /\ kind # "PCV3" => Len(code.bytes) <= FrameMax
<1>1. CASE kind = "PCV3"
  <2>1. current \in [FramePixels -> {0, 1}] /\ previous \in [FramePixels -> {0, 1}]
    BY <1>1 DEF FrameIn, ShownIn, FramesOf
  <2>2. encode_frame(current, previous).bytes \in Seq(Nat) /\ encode_frame(current, previous).changed \in Nat
    BY <1>1, <2>1, FrameBack
  <2>3. code = encode_frame(current, previous)
    BY <1>1 DEF CodeOf
  <2>4. ShownBy(kind, current, code) \in ShownIn(kind)
    BY <1>1, <2>1 DEF ShownBy, ShownIn, FramesOf
  <2> QED BY <1>1, <2>2, <2>3, <2>4
<1>2. CASE kind # "PCV3"
  <2>1. current \in FramesOf(Colour) /\ previous \in FramesOf(Known)
    BY <1>2 DEF FrameIn, ShownIn
  <2> DEFINE z == color_encode_frame(current, previous, MinChanged)
  <2>2. Coloured(z, TileCount) /\ Len(z.bytes) <= TileCount * TileMax
    BY <1>2, <2>1, ColorFrameBack
  <2>3. code = z
    BY <1>2 DEF CodeOf
  <2> HIDE DEF z
  <2>4. ShownBy(kind, current, code) \in ShownIn(kind)
    BY <1>2, <2>2, <2>3 DEF ShownBy, ShownIn, Coloured
  <2>5. Len(z.bytes) <= FrameMax
    <3> DEFINE a == TileCount * TileMax
    <3>1. a <= FrameMax
      BY DEF VideoAssumption, TileMax
    <3>2. FrameMax \in Nat /\ a \in Nat /\ Len(z.bytes) \in Nat
      <4>1. TileMax \in Nat /\ TileCount \in Nat
        BY TileNumbers DEF TileMax
      <4> QED BY <2>2, <4>1, ProductBelow DEF Coloured, VideoAssumption
    <3> HIDE DEF a
    <3>3. Len(z.bytes) <= a
      BY <2>2 DEF a
    <3> QED BY <3>1, <3>2, <3>3
  <2> QED BY <2>2, <2>3, <2>4, <2>5 DEF Coloured
<1> QED BY <1>1, <1>2

\* The sums after a frame.
LEMMA CountedIs ==
  ASSUME NEW c, Sums(c), NEW frame, StoredBytes(frame) \in Nat, NEW tiles \in Nat
  PROVE  LET d == Counted(c, frame, tiles)
         IN Sums(d) /\ d.bytes = c.bytes + StoredBytes(frame) /\ d.tiles = c.tiles + tiles
<1> DEFINE d == Counted(c, frame, tiles)
           w == Max({c.worst, StoredBytes(frame) - 2})
           v == Max({c.worstTiles, tiles})
           x == c.bytes + StoredBytes(frame)
           y == c.tiles + tiles
<1>1. d = [bytes |-> x, tiles |-> y, worst |-> w, worstTiles |-> v]
  BY DEF Counted
<1>2. x \in Nat /\ x >= 14 /\ y \in Nat
  BY DEF Sums
<1> HIDE DEF d, w, v, x, y
<1>3. d.bytes = x /\ d.tiles = y
  BY <1>1
<1> QED BY <1>2, <1>3 DEF Sums, d, x, y

\* The history after another frame.
LEMMA HistoryOn ==
  ASSUME NEW k, NEW src, NEW frames, Len(frames) \in Nat, NEW K, NEW C, History(k, src, frames, K, C),
         NEW src2, NEW frames2, Len(frames2) = Len(frames) + 1,
         \A n \in 1 .. Len(frames) : src2[n] = src[n] /\ frames2[n] = frames[n],
         NEW shown \in ShownIn(k), NEW sums, Sums(sums),
         Wrote(k, src2[Len(frames) + 1], K[Len(frames)], shown, C[Len(frames)], sums, frames2[Len(frames) + 1])
  PROVE  \E K2, C2 : /\ History(k, src2, frames2, K2, C2)
                     /\ K2[0] = K[0] /\ C2[0] = C[0]
                     /\ K2[Len(frames2)] = shown /\ C2[Len(frames2)] = sums
<1> DEFINE l == Len(frames)
           K2 == [n \in 0 .. l + 1 |-> IF n = l + 1 THEN shown ELSE K[n]]
           C2 == [n \in 0 .. l + 1 |-> IF n = l + 1 THEN sums ELSE C[n]]
<1>1. l \in Nat /\ Len(frames2) = l + 1 /\ l + 1 \in Nat
  OBVIOUS
<1> HIDE DEF l
<1>2. K2[l + 1] = shown /\ C2[l + 1] = sums /\ \A n \in 0 .. l : K2[n] = K[n] /\ C2[n] = C[n]
  BY <1>1
<1> HIDE DEF K2, C2
<1>3. 0 \in 0 .. l /\ l \in 0 .. l
  BY <1>1
<1>4. ASSUME NEW n \in 1 .. l + 1
      PROVE  Wrote(k, src2[n], K2[n - 1], K2[n], C2[n - 1], C2[n], frames2[n])
  <2>1. CASE n = l + 1
    <3>1. n - 1 = l
      BY <1>1, <2>1
    <3>2. Wrote(k, src2[l + 1], K[l], shown, C[l], sums, frames2[l + 1])
      BY DEF l
    <3> QED BY <1>2, <1>3, <2>1, <3>1, <3>2
  <2>2. CASE n # l + 1
    <3>1. n \in 1 .. l /\ n \in 0 .. l /\ n - 1 \in 0 .. l
      BY <1>1, <2>2
    <3>2. Wrote(k, src[n], K[n - 1], K[n], C[n - 1], C[n], frames[n])
      BY <3>1 DEF History, l
    <3>3. src2[n] = src[n] /\ frames2[n] = frames[n]
      BY <3>1 DEF l
    <3> QED BY <1>2, <3>1, <3>2, <3>3
  <2> QED BY <2>1, <2>2
<1>5. ASSUME NEW n \in 0 .. l + 1 PROVE K2[n] \in ShownIn(k) /\ Sums(C2[n])
  <2>1. CASE n = l + 1
    BY <1>2, <2>1
  <2>2. CASE n # l + 1
    <3>1. n \in 0 .. l
      BY <1>1, <2>2
    <3> QED BY <1>2, <3>1 DEF History, l
  <2> QED BY <2>1, <2>2
<1>6. K2[0] = FirstOf(k) /\ C2[0] = NoStats /\ K2[0] = K[0] /\ C2[0] = C[0]
  BY <1>2, <1>3 DEF History
<1>7. History(k, src2, frames2, K2, C2)
  BY <1>1, <1>4, <1>5, <1>6 DEF History
<1> QED BY <1>1, <1>2, <1>6, <1>7

Assumptions == LzssAssumption /\ TileAssumption /\ VideoAssumption
\* a frame as it may be stored
StoredFrames == {Stored(b) : b \in Seq(Nat)}
(***************************************************************************)
(* The inductive invariant: the stream has a history, of which the encoder *)
(* is at the end; the player is as far in it as it has played frames, and  *)
(* what it has drawn is what the encoder took it to have drawn then.       *)
(***************************************************************************)
VideoInv ==
  /\ kind \in Kinds /\ stage \in {"encode", "play", "analyze", "over"}
  /\ source \in Seq(Frames \cup ColorFrames) /\ stream \in Seq(StoredFrames) /\ Len(source) = Len(stream)
  /\ \E K, C : /\ History(kind, source, stream, K, C)
               /\ known = K[Len(stream)] /\ stats = C[Len(stream)]
               /\ \E n \in 0 .. Len(stream) :
                    /\ PlayerIs(kind, n, player, K, C)
                    /\ stage = "encode" => n = 0
                    /\ stage \in {"analyze", "over"} => n = Len(stream)
  /\ stage = "analyze" => kind = "PCV3"
  /\ stage = "over" /\ kind = "PCV3" => report = stats

\* A sequence with one more at its end.
LEMMA AppendIs ==
  ASSUME NEW S, NEW s \in Seq(S), NEW x \in S
  PROVE  /\ Append(s, x) \in Seq(S) /\ Len(Append(s, x)) = Len(s) + 1 /\ Append(s, x)[Len(s) + 1] = x
         /\ \A n \in 1 .. Len(s) : Append(s, x)[n] = s[n]
OBVIOUS

\* The invariant holds at first.
LEMMA VideoInit_Inv == Assumptions /\ VideoInit => VideoInv
<1> SUFFICES ASSUME Assumptions, VideoInit PROVE VideoInv
  OBVIOUS
<1> DEFINE K == [n \in 0 .. 0 |-> FirstOf(kind)]
           C == [n \in 0 .. 0 |-> NoStats]
<1>1. kind \in Kinds /\ stage = "encode" /\ source = <<>> /\ stream = <<>> /\ stats = NoStats
  BY DEF VideoInit, Kinds
<1>2. <<>> \in Seq(Frames \cup ColorFrames) /\ <<>> \in Seq(StoredFrames) /\ Len(stream) = 0
  BY <1>1
<1>3. K[0] = FirstOf(kind) /\ C[0] = NoStats
  OBVIOUS
<1>4. known = FirstOf(kind)
  BY DEF VideoInit, FirstOf
<1>5. Sums(NoStats) /\ NoStats.bytes = 14 /\ NoStats.tiles = 0
  BY DEF Sums, NoStats
<1>6. BlackFrame \in FramesOf({0, 1}) /\ Shows(BlackColors, BlackColors) /\ BlackColors \in FramesOf(Known)
  <2> DEFINE black == <<0, 0, 0>>
  <2>1. As565(black) = black
    BY DEF As565
  <2>2. black \in Known /\ black \in Painted
    BY DEF Known, Painted
  <2> HIDE DEF black
  <2>3. BlackColors = [p \in FramePixels |-> black]
    BY DEF BlackColors, black
  <2> QED BY <2>1, <2>2, <2>3 DEF BlackFrame, FramesOf, Shows
<1>7. FirstOf(kind) \in ShownIn(kind)
  BY <1>6 DEF FirstOf, ShownIn
<1> HIDE DEF K, C
<1>8. History(kind, source, stream, K, C)
  BY <1>2, <1>3, <1>5, <1>7 DEF History
<1>9. PlayerIs(kind, 0, player, K, C)
  <2>1. player = [next |-> 1, bits |-> BlackFrame, ok |-> TRUE, tiles |-> 0, payload |-> 0,
               lcd |-> IF kind = "PCV3" THEN BlackFrame ELSE BlackColors]
    BY DEF VideoInit
  <2>2. /\ player.next = 0 + 1 /\ player.bits = BlackFrame /\ player.ok = TRUE /\ player.tiles = 0
             /\ player.payload = 14 - 14
        /\ player.lcd = IF kind = "PCV3" THEN BlackFrame ELSE BlackColors
    BY <2>1
  <2> QED BY <1>3, <1>5, <1>6, <2>2 DEF PlayerIs, FirstOf
<1> QED BY <1>1, <1>2, <1>3, <1>4, <1>8, <1>9 DEF VideoInv

\* The encoder writes a frame of its kind.
LEMMA Writes_Inv ==
  ASSUME Assumptions, VideoInv, NEW current \in Frames \cup ColorFrames, current \in FrameIn(kind),
         stage = "encode", NEW code, code = CodeOf(kind, current, known), Len(code.bytes) <= FrameMax,
         WriteFrame(current, ShownBy(kind, current, code), Stored(code.bytes), code.changed)
  PROVE  VideoInv'
<1> DEFINE l == Len(stream)
           frame == Stored(code.bytes)
           shown == ShownBy(kind, current, code)
           sums == Counted(stats, frame, code.changed)
<1>1. /\ source' = Append(source, current) /\ known' = shown /\ stream' = Append(stream, frame) /\ stats' = sums
      /\ kind' = kind /\ stage' = stage /\ player' = player /\ report' = report
  BY DEF WriteFrame
<1>2. /\ kind \in Kinds /\ source \in Seq(Frames \cup ColorFrames) /\ stream \in Seq(StoredFrames) /\ Len(source) = l
  BY DEF VideoInv
<1>3. l \in Nat /\ 0 \in 0 .. l /\ l \in 0 .. l
  BY <1>2
<1>4. PICK K, C : /\ History(kind, source, stream, K, C) /\ known = K[l] /\ stats = C[l]
                  /\ PlayerIs(kind, 0, player, K, C)
  BY DEF VideoInv
<1>5. K[l] \in ShownIn(kind) /\ Sums(C[l])
  BY <1>3, <1>4 DEF History
<1>6. code.bytes \in Seq(Nat) /\ code.changed \in Nat /\ shown \in ShownIn(kind)
  <2>1. code = CodeOf(kind, current, K[l])
    BY <1>4
  <2> QED BY <1>2, <1>5, <2>1, CodeIs DEF Assumptions
<1>7. StoredBytes(frame) \in Nat /\ frame \in StoredFrames
  <2>1. FrameMax \in Nat
    BY DEF Assumptions, VideoAssumption
  <2>2. StoredBytes(frame) \in Nat
    BY <1>6, <2>1, StoredIs DEF Assumptions
  <2> QED BY <1>6, <2>2 DEF StoredFrames
<1>8. Sums(sums)
  BY <1>4, <1>5, <1>6, <1>7, CountedIs
<1>9. Wrote(kind, current, K[l], shown, C[l], sums, frame)
  BY <1>4 DEF Wrote
<1> HIDE DEF frame, shown, sums
<1>10. /\ source' \in Seq(Frames \cup ColorFrames) /\ Len(source') = l + 1 /\ source'[l + 1] = current
       /\ stream' \in Seq(StoredFrames) /\ Len(stream') = l + 1 /\ stream'[l + 1] = frame
       /\ \A n \in 1 .. l : source'[n] = source[n] /\ stream'[n] = stream[n]
  <2>1. /\ Append(source, current) \in Seq(Frames \cup ColorFrames) /\ Len(Append(source, current)) = Len(source) + 1
        /\ Append(source, current)[Len(source) + 1] = current
        /\ \A n \in 1 .. Len(source) : Append(source, current)[n] = source[n]
    BY <1>2, AppendIs
  <2>2. /\ Append(stream, frame) \in Seq(StoredFrames) /\ Len(Append(stream, frame)) = Len(stream) + 1
        /\ Append(stream, frame)[Len(stream) + 1] = frame
        /\ \A n \in 1 .. Len(stream) : Append(stream, frame)[n] = stream[n]
    BY <1>2, <1>7, AppendIs
  <2> QED BY <1>1, <1>2, <2>1, <2>2
<1>11. PICK K2, C2 : /\ History(kind, source', stream', K2, C2) /\ K2[0] = K[0] /\ C2[0] = C[0]
                     /\ K2[Len(stream')] = shown /\ C2[Len(stream')] = sums
  <2> DEFINE src2 == source'
             frames2 == stream'
             k == kind
  <2> HIDE DEF src2, frames2, k
  <2>1. /\ Len(frames2) = Len(stream) + 1 /\ Len(stream) \in Nat
        /\ \A n \in 1 .. Len(stream) : src2[n] = source[n] /\ frames2[n] = stream[n]
        /\ shown \in ShownIn(k) /\ Sums(sums) /\ History(k, source, stream, K, C)
        /\ Wrote(k, src2[Len(stream) + 1], K[Len(stream)], shown, C[Len(stream)], sums, frames2[Len(stream) + 1])
    BY <1>3, <1>4, <1>6, <1>8, <1>9, <1>10 DEF src2, frames2, k
  <2>2. \E K2, C2 : /\ History(k, src2, frames2, K2, C2)
                    /\ K2[0] = K[0] /\ C2[0] = C[0]
                    /\ K2[Len(frames2)] = shown /\ C2[Len(frames2)] = sums
    BY <2>1, HistoryOn
  <2> QED BY <2>2 DEF src2, frames2, k
<1>12. PlayerIs(kind', 0, player', K2, C2)
  BY <1>1, <1>4, <1>11 DEF PlayerIs
<1>13. Len(source') = Len(stream') /\ 0 \in 0 .. Len(stream') /\ stage' = "encode"
  BY <1>1, <1>3, <1>10
<1>14. \E K3, C3 : /\ History(kind', source', stream', K3, C3)
                 /\ known' = K3[Len(stream')] /\ stats' = C3[Len(stream')]
                 /\ \E n \in 0 .. Len(stream') :
                    /\ PlayerIs(kind', n, player', K3, C3)
                    /\ stage' = "encode" => n = 0
                    /\ stage' \in {"analyze", "over"} => n = Len(stream')
  BY <1>1, <1>11, <1>12, <1>13
<1> QED BY <1>1, <1>2, <1>10, <1>13, <1>14 DEF VideoInv

\* encode_frame and the writing of its bytes keep it.
LEMMA EncodeFrame_Inv ==
  ASSUME Assumptions, VideoInv, NEW current \in Frames, EncodeFrame(current)
  PROVE  VideoInv'
<1> DEFINE code == encode_frame(current, known)
<1>1. /\ kind = "PCV3" /\ stage = "encode" /\ Len(code.bytes) <= FrameMax
      /\ WriteFrame(current, current, Stored(code.bytes), code.changed)
  BY DEF EncodeFrame
<1>2. code = CodeOf(kind, current, known)
  BY <1>1 DEF CodeOf
<1> HIDE DEF code
<1>3. ShownBy(kind, current, code) = current
  BY <1>1 DEF ShownBy
<1>4. current \in FrameIn(kind)
  BY <1>1 DEF Assumptions, VideoAssumption, FrameIn, FramesOf
<1> QED BY <1>1, <1>2, <1>3, <1>4, Writes_Inv

\* color_encode_frame and the writing of its bytes keep it.
LEMMA EncodeColors_Inv ==
  ASSUME Assumptions, VideoInv, NEW current \in ColorFrames, EncodeColors(current)
  PROVE  VideoInv'
<1> DEFINE code == color_encode_frame(current, known, MinChanged)
<1>1. /\ kind = "PCVC" /\ stage = "encode"
      /\ WriteFrame(current, code.shown, Stored(code.bytes), code.changed)
  BY DEF EncodeColors
<1>2. code = CodeOf(kind, current, known)
  BY <1>1 DEF CodeOf
<1> HIDE DEF code
<1>3. ShownBy(kind, current, code) = code.shown
  BY <1>1 DEF ShownBy
<1>4. current \in FrameIn(kind)
  BY <1>1 DEF Assumptions, VideoAssumption, FrameIn, FramesOf, Colour
<1>5. Len(code.bytes) <= FrameMax
  <2>1. known \in ShownIn(kind) /\ kind \in Kinds
    <3>1. PICK K, C : History(kind, source, stream, K, C) /\ known = K[Len(stream)]
      BY DEF VideoInv
    <3>2. Len(stream) \in 0 .. Len(stream)
      BY DEF VideoInv
    <3> QED BY <3>1, <3>2 DEF History, VideoInv
  <2> QED BY <1>1, <1>2, <1>4, <2>1, CodeIs DEF Assumptions
<1> QED BY <1>1, <1>2, <1>3, <1>4, <1>5, Writes_Inv

\* What the readers make of a frame that was written.
LEMMA ReadIs ==
  ASSUME Assumptions, VideoInv, NEW K, NEW C, History(kind, source, stream, K, C), NEW n \in 1 .. Len(stream),
         NEW code, code = CodeOf(kind, source[n], K[n - 1])
  PROVE  /\ n - 1 \in 0 .. Len(stream) /\ n \in 0 .. Len(stream)
         /\ code.bytes \in Seq(Nat) /\ code.changed \in Nat
         /\ source[n] \in FrameIn(kind) /\ K[n - 1] \in ShownIn(kind) /\ K[n] = ShownBy(kind, source[n], code)
         /\ C[n] = Counted(C[n - 1], stream[n], code.changed)
         /\ C[n].bytes = C[n - 1].bytes + StoredBytes(stream[n]) /\ C[n].tiles = C[n - 1].tiles + code.changed
         /\ Sums(C[n - 1]) /\ Sums(C[n]) /\ StoredBytes(stream[n]) \in Nat
         /\ ~(stream[n].raw > FrameMax) /\ Payload(stream[n]) = [ok |-> TRUE, out |-> code.bytes]
<1>1. n - 1 \in 0 .. Len(stream) /\ n \in 0 .. Len(stream)
  BY DEF VideoInv
<1>2. Wrote(kind, source[n], K[n - 1], K[n], C[n - 1], C[n], stream[n])
  BY DEF History
<1>3. /\ source[n] \in FrameIn(kind) /\ Len(code.bytes) <= FrameMax /\ stream[n] = Stored(code.bytes)
      /\ K[n] = ShownBy(kind, source[n], code) /\ C[n] = Counted(C[n - 1], stream[n], code.changed)
  BY <1>2 DEF Wrote
<1>4. K[n - 1] \in ShownIn(kind) /\ Sums(C[n - 1]) /\ Sums(C[n])
  BY <1>1 DEF History
<1>5. code.bytes \in Seq(Nat) /\ code.changed \in Nat
  <2> DEFINE current == source[n]
             previous == K[n - 1]
  <2>1. current \in FrameIn(kind) /\ previous \in ShownIn(kind) /\ code = CodeOf(kind, current, previous)
        /\ kind \in Kinds
    BY <1>3, <1>4 DEF VideoInv
  <2> HIDE DEF current, previous
  <2> QED BY <2>1, CodeIs DEF Assumptions
<1>6. FrameMax \in Nat
  BY DEF Assumptions, VideoAssumption
<1> DEFINE bytes == code.bytes
<1>7. /\ Payload(Stored(bytes)) = [ok |-> TRUE, out |-> bytes]
      /\ Stored(bytes).raw = Len(bytes) /\ StoredBytes(Stored(bytes)) \in Nat
  <2>1. bytes \in Seq(Nat) /\ Len(bytes) <= FrameMax
    BY <1>3, <1>5
  <2> HIDE DEF bytes
  <2> QED BY <1>6, <2>1, StoredIs DEF Assumptions
<1>8. ~(stream[n].raw > FrameMax)
  <2>1. stream[n].raw = Len(bytes) /\ Len(bytes) <= FrameMax /\ Len(bytes) \in Nat
    BY <1>3, <1>5, <1>7
  <2> HIDE DEF bytes
  <2> QED BY <1>6, <2>1
<1>9. C[n].bytes = C[n - 1].bytes + StoredBytes(stream[n]) /\ C[n].tiles = C[n - 1].tiles + code.changed
  <2> DEFINE before == C[n - 1]
             frame == stream[n]
  <2>1. Sums(before) /\ StoredBytes(frame) \in Nat /\ C[n] = Counted(before, frame, code.changed)
    BY <1>3, <1>4, <1>7
  <2> HIDE DEF before, frame
  <2> DEFINE tiles == code.changed
             d == Counted(before, frame, tiles)
  <2>2. tiles \in Nat /\ C[n] = d
    BY <1>5, <2>1
  <2> HIDE DEF tiles
  <2>3. d.bytes = before.bytes + StoredBytes(frame) /\ d.tiles = before.tiles + tiles
    BY <2>1, <2>2, CountedIs
  <2> HIDE DEF d
  <2> QED BY <2>2, <2>3 DEF before, frame, tiles
<1> QED BY <1>1, <1>3, <1>4, <1>5, <1>7, <1>8, <1>9

\* The player shows the next frame of the stream.
LEMMA PlayFrame_Inv ==
  ASSUME Assumptions, VideoInv, PlayFrame
  PROVE  VideoInv'
<1> DEFINE l == Len(stream)
<1>1. /\ stage = "play" /\ player.next <= l
      /\ UNCHANGED <<kind, source, known, stream, stats, stage, report>>
  BY DEF PlayFrame
<1>2. l \in Nat /\ kind \in Kinds
  BY DEF VideoInv
<1>3. PICK K, C : /\ History(kind, source, stream, K, C) /\ known = K[l] /\ stats = C[l]
                  /\ \E n \in 0 .. l : PlayerIs(kind, n, player, K, C)
  BY DEF VideoInv
<1>4. PICK n \in 0 .. l : PlayerIs(kind, n, player, K, C)
  BY <1>3
<1>5. /\ player.ok = TRUE /\ player.next = n + 1 /\ player.tiles = C[n].tiles
      /\ player.payload = C[n].bytes - 14
  BY <1>4 DEF PlayerIs
<1> DEFINE m == n + 1
<1>6. m \in 1 .. l /\ m - 1 = n
  BY <1>1, <1>2, <1>5
<1> DEFINE current == source[m]
           code == CodeOf(kind, current, K[n])
           frame == stream[m]
           end == Play(code.bytes)
<1> HIDE DEF m
<1>7. /\ m \in 0 .. Len(stream)
      /\ code.bytes \in Seq(Nat) /\ code.changed \in Nat
      /\ current \in FrameIn(kind) /\ K[n] \in ShownIn(kind) /\ K[m] = ShownBy(kind, current, code)
      /\ C[m].bytes = C[n].bytes + StoredBytes(frame) /\ C[m].tiles = C[n].tiles + code.changed
      /\ Sums(C[n]) /\ Sums(C[m]) /\ StoredBytes(frame) \in Nat
      /\ Payload(frame) = [ok |-> TRUE, out |-> code.bytes]
  <2> DEFINE z == CodeOf(kind, source[m], K[m - 1])
  <2>1. z = code
    BY <1>6
  <2> HIDE DEF z
  <2>2. z = CodeOf(kind, source[m], K[m - 1])
    BY DEF z
  <2>3. /\ m \in 0 .. Len(stream)
        /\ z.bytes \in Seq(Nat) /\ z.changed \in Nat
        /\ source[m] \in FrameIn(kind) /\ K[m - 1] \in ShownIn(kind) /\ K[m] = ShownBy(kind, source[m], z)
        /\ C[m].bytes = C[m - 1].bytes + StoredBytes(stream[m]) /\ C[m].tiles = C[m - 1].tiles + z.changed
        /\ Sums(C[m - 1]) /\ Sums(C[m]) /\ StoredBytes(stream[m]) \in Nat
        /\ Payload(stream[m]) = [ok |-> TRUE, out |-> z.bytes]
    BY <1>3, <1>6, <2>2, ReadIs
  <2> QED BY <1>6, <2>1, <2>3
<1>8. player' = PlayedTo(end, frame)
  <2>1. player.next = m
    BY <1>5 DEF m
  <2>2. \E payload \in {Payload(frame)} :
          player' = IF ~payload.ok THEN [player EXCEPT !.ok = FALSE] ELSE PlayedTo(Play(payload.out), frame)
    BY <2>1 DEF PlayFrame
  <2> DEFINE z == Payload(frame)
  <2>3. player' = IF ~z.ok THEN [player EXCEPT !.ok = FALSE] ELSE PlayedTo(Play(z.out), frame)
    BY <2>2
  <2>4. z.ok = TRUE /\ z.out = code.bytes
    BY <1>7
  <2> HIDE DEF z
  <2> QED BY <2>3, <2>4
<1>9. end.ok = TRUE /\ end.tiles = code.changed
      /\ IF kind = "PCV3" THEN end.bits = K[m] /\ end.lcd = K[m] ELSE Shows(end.lcd, K[m])
  <2>1. CASE kind = "PCV3"
    <3> DEFINE previous == K[n]
    <3>1. current \in [FramePixels -> {0, 1}] /\ previous \in [FramePixels -> {0, 1}]
          /\ player.bits = previous /\ player.lcd = previous
      BY <1>4, <1>7, <2>1 DEF FrameIn, ShownIn, FramesOf, PlayerIs
    <3> HIDE DEF current, previous
    <3>2. Play(encode_frame(current, previous).bytes) = PlayerAt(encode_frame(current, previous), current, current)
      BY <2>1, <3>1, FrameBack DEF Assumptions
    <3>3. code = encode_frame(current, previous)
      BY <2>1 DEF CodeOf, previous
    <3>4. K[m] = current
      BY <1>7, <2>1 DEF ShownBy
    <3> HIDE DEF code
    <3>5. end = PlayerAt(code, current, current)
      BY <3>2, <3>3
    <3> HIDE DEF end
    <3>6. end.ok = TRUE /\ end.tiles = code.changed /\ end.bits = current /\ end.lcd = current
      BY <3>5 DEF PlayerAt
    <3> QED BY <2>1, <3>4, <3>6
  <2>2. CASE kind # "PCV3"
    <3> DEFINE previous == K[n]
    <3>1. current \in FramesOf(Colour) /\ previous \in FramesOf(Known) /\ Shows(player.lcd, previous)
      BY <1>4, <1>7, <2>2 DEF FrameIn, ShownIn, PlayerIs
    <3> HIDE DEF current, previous
    <3>2. LET z == color_encode_frame(current, previous, MinChanged)
          IN Shows(player.lcd, previous) =>
               \E v : Shows(v, z.shown) /\ Play(z.bytes) = PlayerAt(z, player.bits, v)
      BY <2>2, <3>1, ColorFrameBack DEF Assumptions
    <3>3. code = color_encode_frame(current, previous, MinChanged)
      BY <2>2 DEF CodeOf, previous
    <3>4. K[m] = code.shown
      BY <1>7, <2>2 DEF ShownBy
    <3> HIDE DEF code
    <3>5. PICK v : Shows(v, code.shown) /\ end = PlayerAt(code, player.bits, v)
      BY <3>1, <3>2, <3>3
    <3> HIDE DEF end
    <3>6. end.ok = TRUE /\ end.tiles = code.changed /\ end.lcd = v
      BY <3>5 DEF PlayerAt
    <3> QED BY <2>2, <3>4, <3>5, <3>6
  <2> QED BY <2>1, <2>2
<1> HIDE DEF end, code, frame, current
<1>10. PlayerIs(kind, m, player', K, C)
  <2> DEFINE p == player'
             a == player.tiles + end.tiles
             b == player.payload + StoredBytes(frame)
             c == player.next + 1
  <2>1. p = [next |-> c, bits |-> end.bits, ok |-> end.ok, tiles |-> a, payload |-> b, lcd |-> end.lcd]
    BY <1>8 DEF PlayedTo
  <2> HIDE DEF p, a, b, c
  <2>2. p.next = c /\ p.bits = end.bits /\ p.ok = end.ok /\ p.tiles = a /\ p.payload = b /\ p.lcd = end.lcd
    BY <2>1
  <2>3. c = m + 1 /\ a = C[m].tiles
    BY <1>5, <1>7, <1>9 DEF a, c, m
  <2>4. b = C[m].bytes - 14
    <3> DEFINE x == C[n].bytes
               y == StoredBytes(frame)
               z == C[m].bytes
    <3>1. b = (x - 14) + y /\ z = x + y /\ x \in Nat /\ y \in Nat
      BY <1>5, <1>7 DEF b, Sums
    <3> HIDE DEF x, y, z
    <3>2. b = z - 14
      BY ONLY <3>1
    <3> QED BY <3>2 DEF z
  <2>5. PlayerIs(kind, m, p, K, C)
    BY <1>9, <2>2, <2>3, <2>4 DEF PlayerIs
  <2> QED BY <2>5 DEF p
<1>11. PlayerIs(kind', m, player', K, C) /\ History(kind', source', stream', K, C)
       /\ known' = K[Len(stream')] /\ stats' = C[Len(stream')] /\ stage' = "play" /\ m \in 0 .. Len(stream')
  BY <1>1, <1>3, <1>7, <1>10
<1>12. \E K3, C3 : /\ History(kind', source', stream', K3, C3)
                 /\ known' = K3[Len(stream')] /\ stats' = C3[Len(stream')]
                 /\ \E i \in 0 .. Len(stream') :
                    /\ PlayerIs(kind', i, player', K3, C3)
                    /\ stage' = "encode" => i = 0
                    /\ stage' \in {"analyze", "over"} => i = Len(stream')
  BY <1>11
<1> QED BY <1>1, <1>11, <1>12 DEF VideoInv

\* The encoder is done, or the player.
LEMMA Turn_Inv ==
  ASSUME Assumptions, VideoInv, Written \/ Played
  PROVE  VideoInv'
<1> DEFINE l == Len(stream)
<1>1. PICK K, C : /\ History(kind, source, stream, K, C) /\ known = K[l] /\ stats = C[l]
                  /\ \E n \in 0 .. l : /\ PlayerIs(kind, n, player, K, C)
                                       /\ stage = "encode" => n = 0
                                       /\ stage \in {"analyze", "over"} => n = l
  BY DEF VideoInv
<1>2. PICK n \in 0 .. l : PlayerIs(kind, n, player, K, C)
  BY <1>1
<1>3. /\ UNCHANGED <<kind, source, known, stream, stats, player, report>>
      /\ \/ stage' = "play"
         \/ /\ stage = "play" /\ (~player.ok \/ player.next > l)
            /\ stage' = IF kind = "PCV3" THEN "analyze" ELSE "over"
  BY DEF Written, Played
<1>4. stage' \in {"analyze", "over"} => n = l
  <2>1. player.ok = TRUE /\ player.next = n + 1 /\ l \in Nat
    BY <1>2 DEF PlayerIs, VideoInv
  <2> QED BY <1>3, <2>1
<1>5. stage' \in {"encode", "play", "analyze", "over"} /\ stage' # "encode" /\ ~(stage' = "over" /\ kind' = "PCV3")
      /\ (stage' = "analyze" => kind' = "PCV3")
  BY <1>3
<1>6. /\ History(kind', source', stream', K, C) /\ known' = K[Len(stream')] /\ stats' = C[Len(stream')]
      /\ PlayerIs(kind', n, player', K, C) /\ n \in 0 .. Len(stream')
           /\ (stage' \in {"analyze", "over"} => n = Len(stream'))
  BY <1>1, <1>2, <1>3, <1>4
<1>7. \E K3, C3 : /\ History(kind', source', stream', K3, C3)
                 /\ known' = K3[Len(stream')] /\ stats' = C3[Len(stream')]
                 /\ \E i \in 0 .. Len(stream') :
                    /\ PlayerIs(kind', i, player', K3, C3)
                    /\ stage' = "encode" => i = 0
                    /\ stage' \in {"analyze", "over"} => i = Len(stream')
  BY <1>5, <1>6
<1> QED BY <1>3, <1>5, <1>7 DEF VideoInv

\* The analyzer counts what the encoder counted.
LEMMA Analyze_Inv ==
  ASSUME Assumptions, VideoInv, Analyze
  PROVE  VideoInv'
<1> DEFINE l == Len(stream)
<1>0. kind = "PCV3"
  BY DEF VideoInv, Analyze
<1>1. PICK K, C : /\ History(kind, source, stream, K, C) /\ known = K[l] /\ stats = C[l]
                  /\ \E n \in 0 .. l : /\ PlayerIs(kind, n, player, K, C)
                                       /\ stage = "encode" => n = 0
                                       /\ stage \in {"analyze", "over"} => n = l
  BY DEF VideoInv
<1>2. l \in Nat /\ l \in 0 .. l
  BY DEF VideoInv
<1>3. /\ stage = "analyze" /\ stage' = "over" /\ UNCHANGED <<kind, source, known, stream, stats, player>>
  BY DEF Analyze
<1>4. PlayerIs(kind, l, player, K, C)
  BY <1>1, <1>3
<1>5. PICK U : /\ report' = U[l] /\ U[0] = NoStats
               /\ \A i \in 1 .. l : U[i] = Analyzed(U[i - 1], stream[i])
  BY <1>2, AnalyzeIs
<1>6. ASSUME NEW i \in 1 .. l, U[i - 1] = C[i - 1] PROVE U[i] = C[i]
  <2> DEFINE current == source[i]
             previous == K[i - 1]
             code == CodeOf(kind, current, previous)
             before == C[i - 1]
             frame == stream[i]
  <2>1. /\ code.bytes \in Seq(Nat)
        /\ current \in FrameIn(kind) /\ previous \in ShownIn(kind)
        /\ C[i] = Counted(before, frame, code.changed) /\ Sums(before)
        /\ ~(frame.raw > FrameMax) /\ Payload(frame) = [ok |-> TRUE, out |-> code.bytes]
    <3> DEFINE z == code
    <3>1. z = CodeOf(kind, source[i], K[i - 1])
      OBVIOUS
    <3> HIDE DEF z
    <3>2. /\ z.bytes \in Seq(Nat)
          /\ source[i] \in FrameIn(kind) /\ K[i - 1] \in ShownIn(kind)
          /\ C[i] = Counted(C[i - 1], stream[i], z.changed) /\ Sums(C[i - 1])
          /\ ~(stream[i].raw > FrameMax) /\ Payload(stream[i]) = [ok |-> TRUE, out |-> z.bytes]
      BY <1>1, <3>1, ReadIs
    <3> QED BY <3>2 DEF z
  <2> HIDE DEF current, previous, before, frame
  <2>2. current \in [FramePixels -> {0, 1}] /\ previous \in [FramePixels -> {0, 1}]
    BY <1>0, <2>1 DEF FrameIn, ShownIn, FramesOf
  <2>3. Parsed(encode_frame(current, previous).bytes) = ParserAt(encode_frame(current, previous))
    BY <1>0, <2>2, FrameBack DEF Assumptions
  <2>4. code = encode_frame(current, previous)
    BY <1>0 DEF CodeOf
  <2> HIDE DEF code
  <2> DEFINE payload == Payload(frame)
             parsed == Parsed(payload.out)
  <2>5. payload.ok = TRUE /\ payload.out = code.bytes
    BY <2>1
  <2>6. parsed = ParserAt(code)
    <3> HIDE DEF payload
    <3> QED BY <2>3, <2>4, <2>5
  <2>7. U[i] = IF \/ before = Died \/ frame.raw > FrameMax \/ ~payload.ok \/ ~parsed.ok
                  \/ parsed.pos # Len(payload.out)
               THEN Died ELSE Counted(before, frame, parsed.tiles)
    <3>1. U[i] = Analyzed(before, frame)
      BY <1>5, <1>6 DEF before, frame
    <3> QED BY <3>1 DEF Analyzed
  <2> HIDE DEF parsed, payload
  <2>8. parsed.ok = TRUE /\ parsed.pos = Len(payload.out) /\ parsed.tiles = code.changed
    BY <2>5, <2>6 DEF ParserAt
  <2>9. before # Died
    <3>1. Died.bytes = -1
      BY DEF Died, NoStats
    <3>2. before.bytes # -1
      BY <2>1 DEF Sums
    <3> QED BY <3>1, <3>2
  <2> QED BY <2>1, <2>5, <2>7, <2>8, <2>9
<1>7. U[l] = C[l]
  <2> DEFINE S == {j \in 0 .. l : U[j] = C[j]}
  <2>1. 0 \in S
    BY <1>1, <1>2, <1>5 DEF History
  <2>2. Steps(S, l)
    <3>1. ASSUME NEW j \in 0 .. l - 1, j \in S PROVE j + 1 \in S
      <4>1. j + 1 \in 1 .. l /\ (j + 1) - 1 = j /\ j + 1 \in 0 .. l
        BY <1>2
      <4>2. U[j] = C[j]
        BY <3>1
      <4>3. U[j + 1] = C[j + 1]
        BY <1>6, <4>1, <4>2
      <4> QED BY <4>1, <4>3
    <3> HIDE DEF S
    <3> QED BY <3>1 DEF Steps
  <2> HIDE DEF S
  <2>3. l \in S
    BY <1>2, <2>1, <2>2, UpTo
  <2> QED BY <2>3 DEF S
<1>8. report' = stats'
  BY <1>1, <1>3, <1>5, <1>7
<1>9. /\ History(kind', source', stream', K, C) /\ known' = K[Len(stream')] /\ stats' = C[Len(stream')]
      /\ PlayerIs(kind', Len(stream'), player', K, C) /\ Len(stream') \in 0 .. Len(stream')
  BY <1>1, <1>2, <1>3, <1>4
<1>10. \E K3, C3 : /\ History(kind', source', stream', K3, C3)
                 /\ known' = K3[Len(stream')] /\ stats' = C3[Len(stream')]
                 /\ \E i \in 0 .. Len(stream') :
                    /\ PlayerIs(kind', i, player', K3, C3)
                    /\ stage' = "encode" => i = 0
                    /\ stage' \in {"analyze", "over"} => i = Len(stream')
  BY <1>3, <1>9
<1> QED BY <1>3, <1>8, <1>10 DEF VideoInv

\* Every step keeps it.
LEMMA VideoNext_Inv ==
  ASSUME Assumptions, VideoInv, [VideoNext]_videoVars
  PROVE  VideoInv'
<1>1. CASE UNCHANGED videoVars
  <2>1. /\ kind' = kind /\ source' = source /\ known' = known /\ stream' = stream /\ stats' = stats
        /\ stage' = stage /\ player' = player /\ report' = report
    BY <1>1 DEF videoVars
  <2> QED BY <2>1 DEF VideoInv
<1>2. CASE EncodeNext
  <2>1. CASE \E f \in Frames : EncodeFrame(f)
    BY <2>1, EncodeFrame_Inv
  <2>2. CASE \E f \in ColorFrames : EncodeColors(f)
    BY <2>2, EncodeColors_Inv
  <2> QED BY <1>2, <2>1, <2>2 DEF EncodeNext
<1>3. CASE Written \/ Played
  BY <1>3, Turn_Inv
<1>4. CASE PlayFrame
  BY <1>4, PlayFrame_Inv
<1>5. CASE Analyze
  BY <1>5, Analyze_Inv
<1> QED BY <1>1, <1>2, <1>3, <1>4, <1>5 DEF VideoNext

\* The property follows from it.
LEMMA VideoInv_Shows ==
  ASSUME Assumptions, VideoInv
  PROVE  ShowsEveryFrame
<1> DEFINE l == Len(stream)
<1>1. l \in Nat
  BY DEF VideoInv
<1>2. PICK K, C : /\ History(kind, source, stream, K, C) /\ known = K[l] /\ stats = C[l]
                  /\ \E n \in 0 .. l : /\ PlayerIs(kind, n, player, K, C)
                                       /\ stage = "encode" => n = 0
                                       /\ stage \in {"analyze", "over"} => n = l
  BY DEF VideoInv
<1>3. PICK n \in 0 .. l : PlayerIs(kind, n, player, K, C) /\ (stage \in {"analyze", "over"} => n = l)
  BY <1>2
<1>4. player.ok = TRUE /\ player.next = n + 1 /\ player.tiles = C[n].tiles /\ player.payload = C[n].bytes - 14
  BY <1>3 DEF PlayerIs
<1>5. TotalsAgree
  <2> SUFFICES ASSUME stage = "over"
               PROVE  /\ player.tiles = stats.tiles /\ player.payload = stats.bytes - 14
                      /\ kind = "PCV3" => report = stats
    BY DEF TotalsAgree
  <2>1. n = l
    BY <1>3
  <2>2. kind = "PCV3" => report = stats
    BY DEF VideoInv
  <2> QED BY <1>2, <1>4, <2>1, <2>2
<1>6. FramesShown
  <2> SUFFICES ASSUME player.next > 1
               PROVE  LET frame == source[player.next - 1]
                      IN IF kind = "PCV3" THEN player.lcd = frame
                         ELSE \A t \in Tiles : Differing(frame, t) = 0 \/ Differing(frame, t) < MinChanged
    BY <1>4 DEF FramesShown
  <2>1. n \in 1 .. l /\ player.next - 1 = n
    BY <1>1, <1>4
  <2> DEFINE current == source[n]
             previous == K[n - 1]
             code == CodeOf(kind, current, previous)
  <2>2. current \in FrameIn(kind) /\ previous \in ShownIn(kind) /\ K[n] = ShownBy(kind, current, code)
    <3> DEFINE z == code
    <3>1. z = CodeOf(kind, source[n], K[n - 1])
      OBVIOUS
    <3> HIDE DEF z
    <3>2. source[n] \in FrameIn(kind) /\ K[n - 1] \in ShownIn(kind) /\ K[n] = ShownBy(kind, source[n], z)
      BY <1>2, <2>1, <3>1, ReadIs
    <3> QED BY <3>2 DEF z
  <2> HIDE DEF current, previous
  <2>3. CASE kind = "PCV3"
    <3>1. player.lcd = K[n] /\ K[n] = current
      BY <1>3, <2>2, <2>3 DEF PlayerIs, ShownBy
    <3> QED BY <2>1, <2>3, <3>1 DEF current
  <2>4. CASE kind # "PCV3"
    <3>1. current \in FramesOf(Colour) /\ previous \in FramesOf(Known)
      BY <2>2, <2>4 DEF FrameIn, ShownIn
    <3>2. code = color_encode_frame(current, previous, MinChanged)
      BY <2>4 DEF CodeOf
    <3>3. \A t \in Tiles : Near(code.shown, current, t, MinChanged)
      <4>1. \A t \in Tiles : Near(color_encode_frame(current, previous, MinChanged).shown, current, t, MinChanged)
        BY <2>4, <3>1, ColorFrameBack DEF Assumptions
      <4> QED BY <3>2, <4>1
    <3> HIDE DEF code
    <3>4. K[n] = code.shown /\ Shows(player.lcd, code.shown)
      BY <1>3, <2>2, <2>4 DEF PlayerIs, ShownBy
    <3>5. ASSUME NEW t \in Tiles PROVE Differing(current, t) = Cardinality(Lagging(code.shown, current, t))
      <4>1. ASSUME NEW i \in 0 .. TilePixels - 1
            PROVE  As565(player.lcd[PixelOf(t, i)]) = TileOf(code.shown, t)[i]
        <5>1. PixelOf(t, i) \in FramePixels
          BY PixelIs DEF Assumptions
        <5>2. TileOf(code.shown, t)[i] = code.shown[PixelOf(t, i)]
          BY DEF TileOf
        <5> QED BY <3>4, <5>1, <5>2 DEF Shows
      <4> DEFINE a == {i \in 0 .. TilePixels - 1 :
                         As565(player.lcd[PixelOf(t, i)]) # Rendered(TileOf(current, t))[i]}
      <4>2. a = Lagging(code.shown, current, t)
        BY <4>1 DEF Lagging
      <4> HIDE DEF a
      <4>3. Differing(current, t) = Cardinality(a)
        BY DEF Differing, a
      <4> QED BY <4>2, <4>3
    <3>6. ASSUME NEW t \in Tiles PROVE Differing(current, t) = 0 \/ Differing(current, t) < MinChanged
      BY <3>3, <3>5 DEF Near
    <3> QED BY <2>1, <2>4, <3>6 DEF current
  <2> QED BY <2>3, <2>4
<1> QED BY <1>5, <1>6 DEF ShowsEveryFrame

\* After each frame the display shows that frame, and the encoder, the player
\* and the analyzer agree on what the stream holds, for frames of any size, any
\* limits of the fields of the format and any number of frames.
THEOREM EveryFrameShown ==
  ASSUME LzssAssumption, TileAssumption, VideoAssumption
  PROVE  VideoSpec => []ShowsEveryFrame
<1>1. Assumptions
  BY DEF Assumptions
<1>2. VideoInit => VideoInv
  BY <1>1, VideoInit_Inv
<1>3. VideoInv /\ [VideoNext]_videoVars => VideoInv'
  BY <1>1, VideoNext_Inv
<1>4. VideoInv => ShowsEveryFrame
  BY <1>1, VideoInv_Shows
<1> QED BY <1>2, <1>3, <1>4, PTL DEF VideoSpec
=============================================================================
