----------------------------- MODULE SolveExact -----------------------------
(***************************************************************************)
(* The solver's exact path: an expression is read into a polynomial with   *)
(* rational coefficients, its rational roots are divided out one by one,   *)
(* a quadratic that is left is solved by its discriminant, and from the    *)
(* roots the program answers an equation, an inequality, or where the      *)
(* curve rises and falls (src/src/solve/exact_poly.c, roots.c,             *)
(* inequality.c, analysis.c).  What it does not answer itself goes to the  *)
(* floating-point code, here the answer "numeric".                         *)
(*                                                                         *)
(* Left out: the grammar of expressions (reading is a chain of operations  *)
(* with operands that are polynomials), texts, the scan range, which is    *)
(* the default and excludes no root, and the tolerance within which two    *)
(* roots count as one, taken to be less than any distance that occurs.     *)
(***************************************************************************)
EXTENDS SolveRat, Sequences, FiniteSets
LOCAL INSTANCE SequencesExt
CONSTANTS Operands,  \* what the expression is made of: whole coefficients by exponent
          Divisions, \* the numbers it is divided by
          Powers,    \* the exponents it is raised to
          MaxReads,  \* bound on the number of operations
          Tasks,     \* what is asked of it
          Samples    \* numbers at which the answer is compared with the expression

ASSUME SolveAssumption == /\ Operands \subseteq [Exponents -> Int]
                          /\ Divisions \subseteq Int \ {0} /\ Powers \subseteq Exponents
                          /\ MaxReads \in Nat

VARIABLES phase, reads, poly, task, reduced, points, segment, intervals, answer,
          meant  \* the expression, computed without limit: coefficients over a denominator
vars == <<phase, reads, poly, task, reduced, points, segment, intervals, answer, meant>>

NoTask == [kind |-> "none"]
SolveInit == /\ \E q \in Operands : /\ poly = [i \in Exponents |-> rat_make(q[i], 1)]
                                    /\ meant = [coeff |-> q, den |-> 1]
             /\ phase = "read" /\ reads = 1 /\ task = NoTask /\ reduced = NoPoly
             /\ points = {} /\ segment = 0 /\ intervals = <<>> /\ answer = "none"

Finish(a) == phase' = "done" /\ answer' = a

---------------------------------------------------------------------------
(***************************************************************************)
(* solve_parse_rat_term, _expr, _power and _unary: one operation on the    *)
(* polynomial read so far.  An operation that is refused sets the parser's *)
(* error, and the expression is left to the floating-point code.           *)
(***************************************************************************)
Of(q) == [i \in Exponents |-> rat_make(q[i], 1)]
Product(c, d) ==
  [k \in Exponents |-> LET sum[i \in -1 .. k] == IF i = -1 THEN 0 ELSE sum[i - 1] + c[i] * d[k - i]
                       IN sum[k]]
One == [i \in Exponents |-> IF i = 0 THEN 1 ELSE 0]
Raised(c, k) == LET power[i \in Nat] == IF i = 0 THEN One ELSE Product(power[i - 1], c) IN power[k]

ReadTo(p, coeff, den) ==
  /\ phase = "read" /\ reads < MaxReads
  /\ reads' = reads + 1 /\ poly' = p
  /\ IF p = NoPoly THEN Finish("numeric") /\ UNCHANGED meant
     ELSE meant' = [coeff |-> coeff, den |-> den] /\ UNCHANGED <<phase, answer>>
  /\ UNCHANGED <<task, reduced, points, segment, intervals>>

Plus(q) == ReadTo(poly_add(poly, Of(q)),
                  [i \in Exponents |-> meant.coeff[i] + meant.den * q[i]], meant.den)
Minus(q) == ReadTo(poly_sub(poly, Of(q)),
                   [i \in Exponents |-> meant.coeff[i] - meant.den * q[i]], meant.den)
Times(q) == ReadTo(poly_mul(poly, Of(q)), Product(meant.coeff, q), meant.den)
Over(n) == ReadTo(poly_scale(poly, rat_make(1, n)),
                  [i \in Exponents |-> IF n < 0 THEN -meant.coeff[i] ELSE meant.coeff[i]],
                  meant.den * Size(n))
Raise(k) == ReadTo(poly_power(poly, k), Raised(meant.coeff, k), meant.den ^ k)
Negate == ReadTo(poly_neg(poly), [i \in Exponents |-> -meant.coeff[i]], meant.den)

Read == \/ \E q \in Operands : Plus(q) \/ Minus(q) \/ Times(q)
        \/ \E n \in Divisions : Over(n)
        \/ \E k \in Powers : Raise(k)
        \/ Negate

---------------------------------------------------------------------------
(***************************************************************************)
(* The question.  A curve is asked about through a derivative of it.       *)
(* Equations and inequalities without x are answered at once; a linear     *)
(* equation needs no search.                                               *)
(***************************************************************************)
poly_derivative(p, order) ==
  LET derived[n \in Nat] ==
        IF n = 0 THEN p
        ELSE Whole([i \in Exponents |-> IF i = MaxDegree THEN Integer(0)
                                        ELSE rat_mul(derived[n - 1][i + 1], Integer(i + 1))])
  IN derived[order]
Derived(c, order) ==
  LET derived[n \in Nat] ==
        IF n = 0 THEN c
        ELSE [i \in Exponents |-> IF i = MaxDegree THEN 0 ELSE (i + 1) * derived[n - 1][i + 1]]
  IN derived[order]

relation_satisfied(sign, relation) ==
  \/ sign = 0 /\ relation \in {"<=", ">="}
  \/ sign < 0 /\ relation \in {"<", "<="}
  \/ sign > 0 /\ relation \in {">", ">="}
is_inclusive(relation) == relation \in {"<=", ">="}

Asked(t) == IF t.kind = "labels" THEN poly_derivative(poly, t.order) ELSE poly
Ask(t) ==
  LET p == Asked(t) IN
  /\ phase = "read" /\ task' = t /\ poly' = p /\ reduced' = p
  /\ meant' = IF t.kind = "labels"
              THEN [meant EXCEPT !.coeff = Derived(meant.coeff, t.order)] ELSE meant
  /\ \/ p = NoPoly /\ Finish("refused")
     \/ p # NoPoly /\ t.kind = "inequality" /\ degree(p) < 0
        /\ Finish(IF relation_satisfied(0, t.relation) THEN "all" ELSE "empty")
     \/ p # NoPoly /\ t.kind = "equation" /\ degree(p) < 0 /\ Finish("identity")
     \/ p # NoPoly /\ (t.kind = "labels" \/ degree(p) >= 0) /\ phase' = "peel" /\ UNCHANGED answer
  /\ UNCHANGED <<reads, points, segment, intervals>>

---------------------------------------------------------------------------
(***************************************************************************)
(* The loops of solve_collect_rat_poly_roots and of                        *)
(* solve_try_rational_polynomial divide one root out at a time; the first  *)
(* stops at a quadratic, the second goes on to a constant.                 *)
(***************************************************************************)
Exact(r) == [exact |-> TRUE, rat_value |-> r, high |-> FALSE]
Searching == IF task.kind = "equation" THEN degree(poly) > 2 /\ degree(reduced) > 0
             ELSE degree(reduced) > 2
Peel ==
  /\ phase = "peel" /\ Searching
  /\ \E root \in exact_rational_roots(reduced) :
       LET quotient == divide_linear(reduced, root) IN
       IF quotient = NoPoly
       THEN Finish(IF task.kind = "labels" THEN "refused" ELSE "numeric")
            /\ UNCHANGED <<reduced, points>>
       ELSE reduced' = quotient /\ points' = points \cup {Exact(root)} /\ UNCHANGED <<phase, answer>>
  /\ UNCHANGED <<reads, poly, task, segment, intervals, meant>>
Peeled == phase = "peel" /\ (Searching => exact_rational_roots(reduced) = {})

(***************************************************************************)
(* What is left: the roots of a quadratic, rational or as two doubles      *)
(* whose rat_value is left at zero, or of a linear factor; of a higher     *)
(* degree, none.                                                           *)
(***************************************************************************)
Irrational == {[exact |-> FALSE, rat_value |-> Integer(0), high |-> h] : h \in BOOLEAN}
QuadraticRefused ==
  LET d == discriminant(reduced) IN
  \/ d = Refused
  \/ /\ d.num >= 0
     /\ IF rat_sqrt_exact(d) # Refused THEN Refused \in quadratic_roots(reduced)
        ELSE task.kind # "equation" /\ Refused \in {rat_neg(reduced[1]), two_a(reduced)}
RestRefused == \/ degree(reduced) = 2 /\ QuadraticRefused
               \/ degree(reduced) = 1 /\ linear_root(reduced) = Refused
RestRoots ==
  CASE degree(reduced) = 2 ->
         IF discriminant(reduced).num < 0 THEN {}
         ELSE IF rat_sqrt_exact(discriminant(reduced)) = Refused THEN Irrational
         ELSE {Exact(r) : r \in quadratic_roots(reduced)}
    [] degree(reduced) = 1 -> {Exact(linear_root(reduced))}
    [] OTHER -> {}

(***************************************************************************)
(* solve_try_rational_polynomial.  A refusal while the quadratic is solved *)
(* comes back as -1, which its caller takes for "solved" like any value    *)
(* but 0, so that the equation counts as solved with the roots found so    *)
(* far; so does one with a rest of a higher degree.                        *)
(***************************************************************************)
SolveEquation ==
  /\ Peeled /\ task.kind = "equation"
  /\ LET none == points = {}
         found == IF RestRefused THEN points ELSE points \cup RestRoots IN
     /\ points' = found
     /\ Finish(IF degree(poly) = 0 THEN "roots"
               ELSE IF degree(poly) > 2 /\ none THEN "numeric"
               ELSE IF degree(reduced) = 1 /\ found = {} THEN "numeric"
               ELSE IF degree(reduced) = 2 /\ ~RestRefused /\ found = {} THEN "no real"
               ELSE "roots")
  /\ UNCHANGED <<reads, poly, task, reduced, segment, intervals, meant>>

CollectRest ==
  /\ Peeled /\ task.kind # "equation"
  /\ IF RestRefused
     THEN Finish(IF task.kind = "labels" THEN "refused" ELSE "numeric") /\ UNCHANGED points
     ELSE points' = points \cup RestRoots /\ phase' = "split" /\ UNCHANGED answer
  /\ UNCHANGED <<reads, poly, task, reduced, segment, intervals, meant>>

---------------------------------------------------------------------------
(***************************************************************************)
(* The value of a polynomial with whole coefficients has the sign of       *)
(* Value(c, x), for any number x; and the order of rational numbers and    *)
(* the two irrational roots of the quadratic left, by which the doubles    *)
(* are sorted.                                                             *)
(***************************************************************************)
Value(c, x) ==
  LET value[i \in Exponents] ==
        IF i = MaxDegree THEN c[i]
        ELSE value[i + 1] * x.num + c[i] * x.den ^ (MaxDegree - i)
  IN value[0]
RightOf(r, point) ==
  IF point.exact THEN Less(point.rat_value, r)
  ELSE LET s == Scaled(reduced)
           c == [i \in Exponents |-> IF i <= 2 THEN s[i] ELSE 0]
           beyond == s[2] * Value(c, r) > 0
           right == IF s[2] > 0 THEN 2 * s[2] * r.num + s[1] * r.den > 0
                    ELSE 2 * s[2] * r.num + s[1] * r.den < 0
       IN IF point.high THEN beyond /\ right ELSE ~beyond \/ right
Before(p, q) == CASE q.exact -> IF p.exact THEN Less(p.rat_value, q.rat_value)
                                ELSE RightOf(q.rat_value, p)
                  [] p.exact /\ ~q.exact -> ~RightOf(p.rat_value, q)
                  [] OTHER -> q.high /\ ~p.high
sort_breakpoints == SetToSortSeq(points, Before)

(***************************************************************************)
(* No root: one test at zero decides for the whole line.                   *)
(***************************************************************************)
OneTest ==
  /\ phase = "split" /\ points = {}
  /\ LET value == poly_eval(poly, Integer(0)) IN
     IF task.kind = "inequality"
     THEN /\ Finish(IF relation_satisfied(value.num, task.relation) THEN "all" ELSE "empty")
          /\ UNCHANGED intervals
     ELSE /\ Finish("intervals")
          /\ intervals' = IF degree(poly) < 0 THEN <<>>
                          ELSE <<[left |-> {}, right |-> {}, closed |-> FALSE,
                                  positive |-> value.num >= 0]>>
  /\ UNCHANGED <<reads, poly, task, reduced, points, segment, meant>>

(***************************************************************************)
(* A number of the segment: one beyond the first or last root, or half-way *)
(* between two.                                                            *)
(***************************************************************************)
sample_OneFurther(p, s) ==
  IF s = 0 THEN rat_sub(p[1].rat_value, Integer(1)) ELSE rat_add(p[s].rat_value, Integer(1))
sample(p, s) ==
  IF s = 0 THEN rat_sub(p[1].rat_value, Integer(1))
  ELSE IF s = Len(p) THEN rat_add(p[s].rat_value, Integer(1))
  ELSE rat_div(rat_add(p[s].rat_value, p[s + 1].rat_value), Integer(2))

(***************************************************************************)
(* solve_add_interval joins two closed intervals that share an end.        *)
(***************************************************************************)
add_interval(interval) ==
  LET n == Len(intervals) IN
  intervals' = IF /\ n > 0 /\ interval.closed /\ interval.left # {}
                  /\ intervals[n].right = interval.left
               THEN [intervals EXCEPT ![n].right = interval.right]
               ELSE Append(intervals, interval)

(***************************************************************************)
(* The loops of solve_run_exact_poly_inequality and                        *)
(* solve_print_labeled_intervals, one segment at a time.  An end is the    *)
(* set of the point there, empty at infinity.  Only the first minds a      *)
(* point that is not rational.                                             *)
(***************************************************************************)
Segment ==
  LET p == sort_breakpoints
      at == sample(p, segment)
      value == poly_eval(poly, at)
      interval == [left |-> IF segment > 0 THEN {p[segment]} ELSE {},
                   right |-> IF segment < Len(p) THEN {p[segment + 1]} ELSE {},
                   closed |-> task.kind = "inequality" /\ is_inclusive(task.relation),
                   positive |-> value.num > 0]
  IN /\ phase = "split" /\ points # {} /\ segment <= Len(p)
     /\ \/ /\ task.kind = "inequality"
           /\ value = Refused \/ \E q \in interval.left \cup interval.right : ~q.exact
           /\ Finish("numeric") /\ UNCHANGED <<segment, intervals>>
        \/ /\ task.kind = "labels" /\ at = Refused
           /\ Finish("intervals") /\ UNCHANGED <<segment, intervals>>
        \/ /\ IF task.kind = "inequality"
              THEN value # Refused /\ \A q \in interval.left \cup interval.right : q.exact
              ELSE at # Refused
           /\ IF IF task.kind = "inequality" THEN relation_satisfied(value.num, task.relation)
                 ELSE value.num # 0
              THEN add_interval(interval) ELSE UNCHANGED intervals
           /\ segment' = segment + 1 /\ UNCHANGED <<phase, answer>>
     /\ UNCHANGED <<reads, poly, task, reduced, points, meant>>
SegmentsDone ==
  /\ phase = "split" /\ points # {} /\ segment > Cardinality(points)
  /\ Finish(IF task.kind = "inequality" /\ intervals = <<>> THEN "empty" ELSE "intervals")
  /\ UNCHANGED <<reads, poly, task, reduced, points, segment, intervals, meant>>

SolveNext == \/ Read
             \/ \E t \in Tasks : Ask(t)
             \/ Peel \/ SolveEquation \/ CollectRest
             \/ OneTest \/ Segment \/ SegmentsDone
SolveSpec == SolveInit /\ [][SolveNext]_vars

---------------------------------------------------------------------------
(***************************************************************************)
(* Type invariant.  Every number the program holds is in lowest terms with *)
(* a positive denominator and within the limit (the contract of SolveRat   *)
(* that comparisons with zero and "den != 1" rely on); the points are      *)
(* distinct.                                                               *)
(***************************************************************************)
Number(r) == /\ r.den > 0 /\ Fits(r.num) /\ Fits(r.den)
             /\ gcd(Size(r.num), r.den) = 1
SolveTypeOK ==
  /\ phase \in {"read", "peel", "split", "done"}
  /\ answer \in {"none", "numeric", "refused", "all", "empty", "intervals", "identity",
                 "roots", "no real"}
  /\ \A p \in {poly, reduced} : p = NoPoly \/ \A i \in Exponents : Number(p[i])
  /\ \A p \in points : Number(p.rat_value)
  /\ Cardinality({p \in points : ~p.exact}) \in {0, 2}
  /\ segment <= Cardinality(points) + 1 /\ Len(intervals) <= segment + 1

LeftOf(x, p) == IF p.exact THEN Less(x, p.rat_value) ELSE ~RightOf(x, p)
At(x, p) == p.exact /\ x = p.rat_value
Inside(x, interval) ==
  /\ \A p \in interval.left : RightOf(x, p) \/ (interval.closed /\ At(x, p))
  /\ \A p \in interval.right : LeftOf(x, p) \/ (interval.closed /\ At(x, p))
InSolution(x) == \/ answer = "all"
                 \/ answer = "intervals" /\ \E k \in 1 .. Len(intervals) : Inside(x, intervals[k])
Split == degree(reduced) <= 2
Sign(x) == Value(meant.coeff, x)

(***************************************************************************)
(* Where the roots have all been found and are rational, the exact answer  *)
(* is true of the expression as it was typed: a number in the solution of  *)
(* an inequality satisfies it, one that satisfies it without being a root  *)
(* is in the solution, and where the curve is said to rise or fall, it     *)
(* does.  What overflows on the way is refused, never answered wrongly.    *)
(***************************************************************************)
IntervalsTrue ==
  (phase = "done" /\ Split) =>
    /\ (task.kind = "inequality" /\ answer \in {"all", "empty", "intervals"}) =>
         \A x \in Samples :
           /\ InSolution(x) => relation_satisfied(Sign(x), task.relation)
           /\ (relation_satisfied(Sign(x), task.relation) /\ Sign(x) # 0) => InSolution(x)
    /\ (task.kind = "labels" /\ \A p \in points : p.exact) =>
         \A k \in 1 .. Len(intervals), x \in Samples :
           Inside(x, intervals[k]) =>
             Sign(x) # 0 /\ (intervals[k].positive <=> Sign(x) > 0)

(***************************************************************************)
(* Every root called exact is one of the equation as it was typed; an      *)
(* identity is one; and if nothing was refused and no rest of a higher     *)
(* degree is left, no rational root is missing.                            *)
(***************************************************************************)
RootsTrue ==
  (phase = "done" /\ task.kind = "equation") =>
    /\ \A p \in points : p.exact => Value(meant.coeff, p.rat_value) = 0
    /\ answer = "identity" => \A i \in Exponents : meant.coeff[i] = 0
    /\ (answer \in {"roots", "no real"} /\ Split /\ ~RestRefused) =>
         \A x \in Samples : Sign(x) = 0 => Exact(x) \in points

(***************************************************************************)
(* "exact derivative roots split the real line; exact signs decide         *)
(* intervals": where the curve is said to rise or fall, it does.           *)
(***************************************************************************)
SignsDecide ==
  (phase = "done" /\ task.kind = "labels") =>
    \A k \in 1 .. Len(intervals), x \in Samples :
      (Inside(x, intervals[k]) /\ Sign(x) # 0) => (intervals[k].positive <=> Sign(x) > 0)
=============================================================================
