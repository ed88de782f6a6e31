----------------------------- MODULE SolveText -----------------------------
(***************************************************************************)
(* The texts the solver works on, and the programs that read them: the     *)
(* evaluator (src/src/solve/eval.c), the reader of polynomials with double *)
(* coefficients (poly.c) and the reader of polynomials with rational ones  *)
(* (exact_poly.c).  Each has a recursive-descent parser of its own; their  *)
(* grammars are the same, so a text is read once, into the order in which  *)
(* its operations are done, and each program is what it makes of that      *)
(* order.  An error anywhere rejects the whole text in all of them; the    *)
(* wording of the message is left out.                                     *)
(*                                                                         *)
(* A text is a sequence of tokens: blanks, and the spelling of numbers and *)
(* names, are left out.  A double is a rational number within DoubleMax:   *)
(* rounding is left out, and a result that leaves the bound, is infinite,  *)
(* not a number or not rational is Unknown, of which nothing is claimed.   *)
(* What a function does is a parameter: any function will do where texts   *)
(* are compared with each other.                                           *)
(***************************************************************************)
EXTENDS SolveRat, Sequences
CONSTANTS VarName,        \* the name of the unknown
          DoubleMax,      \* bound on what a double's numerator and denominator may be here
          PolyMaxDegree,  \* SOLVE_POLY_MAX_DEGREE
          Called(_, _),   \* the value of a function of one argument
          Named(_)        \* the values of pi and e

ASSUME TextAssumption == /\ DoubleMax \in Nat /\ DoubleMax <= 30000
                         /\ PolyMaxDegree \in Nat /\ PolyMaxDegree >= MaxDegree

Token(s) == [sym |-> s, val |-> Integer(0)]
Literal(r) == [sym |-> "#", val |-> r]
Symbol(text, i) == IF i \in 1 .. Len(text) THEN text[i].sym ELSE "end"

Unknown == Refused
Error == [num |-> 1, den |-> 0]
Known(v) == v.den > 0
Euclid[a, b \in Nat] == IF b = 0 THEN a ELSE Euclid[b, a % b]
Double(num, den) ==
  LET g == Euclid[Size(num), Size(den)]
      sign == IF den < 0 THEN -1 ELSE 1
      r == [num |-> (sign * num) \div g, den |-> (sign * den) \div g]
  IN IF den # 0 /\ Size(r.num) <= DoubleMax /\ r.den <= DoubleMax THEN r ELSE Unknown

Sum(a, b) == IF ~Known(a) \/ ~Known(b) THEN Unknown
             ELSE Double(a.num * b.den + b.num * a.den, a.den * b.den)
Opposite(a) == IF Known(a) THEN [a EXCEPT !.num = -@] ELSE a
Product2(a, b) == IF ~Known(a) \/ ~Known(b) THEN Unknown ELSE Double(a.num * b.num, a.den * b.den)
Quotient(a, b) == IF ~Known(a) \/ ~Known(b) THEN Unknown ELSE Double(a.num * b.den, a.den * b.num)
Truncated(a) == IF a.num >= 0 THEN a.num \div a.den ELSE -((-a.num) \div a.den)

---------------------------------------------------------------------------
(***************************************************************************)
(* The grammar, one entry for each function of a parser and each place it  *)
(* may be called at: what was read, operands before their operator, and    *)
(* the place after it, 0 after an error.  A minus sign binds tighter than  *)
(* ^, which groups from the right.                                         *)
(***************************************************************************)
Step(op, name, val) == [op |-> op, name |-> name, val |-> val]
Operation(op) == <<Step(op, "", Integer(0))>>
Called1(name, arity) == <<Step(IF arity = 2 THEN "call2" ELSE "call", name, Integer(0))>>
Arity(step) == CASE step.op \in {"number", "variable", "constant"} -> 0
                 [] step.op \in {"neg", "call"} -> 1
                 [] OTHER -> 2
Found(code, next) == [code |-> code, next |-> next]
Failure == Found(<<>>, 0)
Joined2(left, right, op) ==
  IF right.next = 0 THEN Failure ELSE Found(left.code \o right.code \o op, right.next)
FunctionNames == {"sqrt", "abs", "sin", "cos", "tan", "asin", "acos", "sinh", "cosh", "tanh",
                  "floor", "ceil", "round", "atan", "log", "exp", "e", "min", "max"}
Parts == {"expr", "terms", "term", "powers", "power", "unary", "primary"}

parse(text) ==
  LET at[part \in Parts, i \in 0 .. Len(text) + 2] ==
    LET here == Symbol(text, i)
        Chain(rest, from) ==
          IF from.next = 0 THEN Failure ELSE Joined2(from, at[rest, from.next], <<>>)
        More(ops, operand, rest) ==
          IF here \notin ops THEN Found(<<>>, i)
          ELSE LET right == at[operand, i + 1]
               IN IF right.next = 0 THEN Failure
                  ELSE Joined2([right EXCEPT !.code = @ \o Operation(here)], at[rest, right.next], <<>>)
        Bracket(r) == IF Symbol(text, r.next) = ")" THEN Found(r.code, r.next + 1) ELSE Failure
        Call ==
          LET first == at["expr", i + 2]
              second == at["expr", first.next + 1]
          IN IF Symbol(text, first.next) = ","
             THEN Bracket(Joined2(first, second, Called1(here, 2)))
             ELSE Bracket(Joined2(Found(<<>>, i), first, Called1(here, 1)))
    IN CASE part = "expr" -> Chain("terms", at["term", i])
         [] part = "terms" -> More({"+", "-"}, "term", "terms")
         [] part = "term" -> Chain("powers", at["power", i])
         [] part = "powers" -> More({"*", "/", "%"}, "power", "powers")
         [] part = "power" ->
              LET base == at["unary", i]
              IN IF Symbol(text, base.next) # "^" THEN base
                 ELSE Joined2(base, at["power", base.next + 1], Operation("^"))
         [] part = "unary" ->
              CASE here = "+" -> at["unary", i + 1]
                [] here = "-" -> Joined2(Found(<<>>, i), at["unary", i + 1], Operation("neg"))
                [] OTHER -> at["primary", i]
         [] part = "primary" ->
              CASE here = "(" -> Bracket(at["expr", i + 1])
                [] here = "#" -> Found(<<Step("number", "", text[i].val)>>, i + 1)
                [] here = VarName -> Found(Operation("variable"), i + 1)
                [] here = "pi" \/ (here = "e" /\ Symbol(text, i + 1) # "(") ->
                     Found(<<Step("constant", here, Integer(0))>>, i + 1)
                [] here \in FunctionNames /\ Symbol(text, i + 1) = "(" -> Call
                [] OTHER -> Failure
  IN IF at["expr", 1].next = Len(text) + 1 THEN at["expr", 1].code ELSE <<>>

(***************************************************************************)
(* What a program makes of the operations: of a number, a name or the      *)
(* unknown, of an operation on one operand, and on two.                    *)
(***************************************************************************)
Compute(code, Leaf(_), Unary(_, _), Binary(_, _, _)) ==
  LET after[i \in 0 .. Len(code)] ==
        IF i = 0 THEN <<>>
        ELSE LET stack == after[i - 1]
                 top == Len(stack)
                 kept == SubSeq(stack, 1, top - Arity(code[i]))
             IN Append(kept, CASE Arity(code[i]) = 0 -> Leaf(code[i])
                               [] Arity(code[i]) = 1 -> Unary(code[i], stack[top])
                               [] Arity(code[i]) = 2 -> Binary(code[i], stack[top - 1], stack[top]))
  IN after[Len(code)][1]

---------------------------------------------------------------------------
(***************************************************************************)
(* The evaluator.  Only a whole exponent gives a rational number; a base   *)
(* of zero and a negative exponent give infinity.                          *)
(***************************************************************************)
pow_int(base, n) ==
  LET power[k \in Nat] ==
        IF k = 0 THEN Integer(1)
        ELSE LET half == power[k \div 2] IN
             IF k % 2 = 0 THEN Product2(half, half) ELSE Product2(base, Product2(half, half))
  IN IF n >= 0 THEN power[n] ELSE Quotient(Integer(1), power[-n])
pow(base, exponent) ==
  IF exponent = Integer(0) THEN Integer(1)
  ELSE IF ~Known(base) \/ ~Known(exponent) \/ exponent.den # 1 \/ Size(exponent.num) > 1024
  THEN Unknown
  ELSE pow_int(base, exponent.num)

Larger(a, b) == IF Less(a, b) THEN b ELSE a
Smaller(a, b) == IF Less(a, b) THEN a ELSE b
call1(name, v) == IF ~Known(v) THEN Unknown
                  ELSE IF name = "abs" THEN Larger(v, Opposite(v))
                  ELSE IF name = "floor" THEN Integer(v.num \div v.den)
                  ELSE Called(name, v)
call2(name, v, w) == IF name \notin {"min", "max"} THEN Error
                     ELSE IF ~Known(v) \/ ~Known(w) THEN Unknown
                     ELSE IF name = "min" THEN Smaller(v, w) ELSE Larger(v, w)

value(code, x) ==
  LET Leaf(c) == CASE c.op = "number" -> c.val [] c.op = "variable" -> x
                   [] c.op = "constant" -> Named(c.name)
      Unary(c, a) == IF a = Error THEN Error
                     ELSE IF c.op = "neg" THEN Opposite(a)
                     ELSE IF c.name \in {"min", "max"} THEN Error ELSE call1(c.name, a)
      Binary(c, a, b) ==
        CASE Error \in {a, b} -> Error
          [] c.op = "+" -> Sum(a, b)
          [] c.op = "-" -> Sum(a, Opposite(b))
          [] c.op = "*" -> Product2(a, b)
          [] c.op = "^" -> pow(a, b)
          [] c.op = "call2" -> call2(c.name, a, b)
          [] c.op \in {"/", "%"} /\ b = Integer(0) -> Error
          [] c.op = "/" -> Quotient(a, b)
          [] c.op = "%" -> IF ~Known(Quotient(a, b)) THEN Unknown
                           ELSE Sum(a, Opposite(Product2(Integer(Truncated(Quotient(a, b))), b)))
  IN IF code = <<>> THEN Error ELSE Compute(code, Leaf, Unary, Binary)

(***************************************************************************)
(* A name alone and a function of the unknown alone are recognized without *)
(* the parser.                                                             *)
(***************************************************************************)
eval_expr_fast(text, x) ==
  LET name == Symbol(text, 1)
  IN IF Len(text) = 1 /\ name = VarName THEN x
     ELSE IF Len(text) = 1 /\ name \in {"pi", "e"} THEN Named(name)
     ELSE IF /\ Len(text) = 4 /\ name \in FunctionNames \ {"min", "max"}
             /\ Symbol(text, 2) = "(" /\ Symbol(text, 3) = VarName /\ Symbol(text, 4) = ")"
     THEN call1(name, x) ELSE Error
eval_expr(text, x) ==
  IF eval_expr_fast(text, x) # Error THEN eval_expr_fast(text, x) ELSE value(parse(text), x)

---------------------------------------------------------------------------
(***************************************************************************)
(* The polynomial of double coefficients that a text stands for.           *)
(***************************************************************************)
Powers16 == 0 .. PolyMaxDegree
NoDoubles == [i \in Powers16 |-> Unknown]
double_constant(v) == [i \in Powers16 |-> IF i = 0 THEN v ELSE Integer(0)]
Usable(p) == IF \E i \in Powers16 : ~Known(p[i]) THEN NoDoubles ELSE p
is_constant(p) == \A i \in Powers16 \ {0} : p[i] = Integer(0)
double_scale(p, v) == Usable([i \in Powers16 |-> Product2(p[i], v)])
double_add(p, q) == Usable([i \in Powers16 |-> Sum(p[i], q[i])])
double_mul(p, q) ==
  LET Coefficient(k) ==
        LET sum[i \in -1 .. k] == IF i = -1 THEN Integer(0) ELSE Sum(sum[i - 1], Product2(p[i], q[k - i]))
        IN sum[k]
  IN IF \E i, j \in Powers16 : i + j > PolyMaxDegree /\ p[i] # Integer(0) /\ q[j] # Integer(0)
     THEN NoDoubles ELSE Usable([k \in Powers16 |-> Coefficient(k)])
double_power(p, n) ==
  LET power[k \in Nat] == IF k = 0 THEN double_constant(Integer(1)) ELSE double_mul(power[k - 1], p)
  IN power[n]

double_poly(code) ==
  LET Leaf(c) == CASE c.op = "number" -> double_constant(c.val)
                   [] c.op = "variable" -> [double_constant(Integer(0)) EXCEPT ![1] = Integer(1)]
                   [] c.op = "constant" -> double_constant(Named(c.name))
      Unary(c, p) == IF p = NoDoubles \/ c.op = "call" THEN NoDoubles ELSE double_scale(p, Integer(-1))
      Binary(c, p, q) ==
        CASE NoDoubles \in {p, q} \/ c.op \in {"call2", "%"} -> NoDoubles
          [] c.op = "+" -> double_add(p, q)
          [] c.op = "-" -> double_add(p, double_scale(q, Integer(-1)))
          [] c.op = "*" -> double_mul(p, q)
          [] c.op = "/" -> IF is_constant(q) /\ q[0] # Integer(0)
                           THEN double_scale(p, Quotient(Integer(1), q[0])) ELSE NoDoubles
          [] c.op = "^" -> IF is_constant(q) /\ q[0].den = 1 /\ q[0].num \in Powers16
                           THEN double_power(p, q[0].num) ELSE NoDoubles
  IN IF code = <<>> THEN NoDoubles ELSE Compute(code, Leaf, Unary, Binary)

(***************************************************************************)
(* The polynomial of rational coefficients, by the operations of SolveRat. *)
(* A literal beyond the limit is refused, and so are pi and e.             *)
(***************************************************************************)
rat_divided_AnyDivisor(p, q) ==
  IF q[0].num # 0 THEN poly_scale(p, rat_make(q[0].den, q[0].num)) ELSE NoPoly
rat_divided(p, q) ==
  IF degree(q) = 0 THEN poly_scale(p, rat_make(q[0].den, q[0].num)) ELSE NoPoly
rat_poly(code) ==
  LET Leaf(c) == CASE c.op = "number" -> Whole(poly_constant(rat_make(c.val.num, c.val.den)))
                   [] c.op = "variable" -> [poly_constant(Integer(0)) EXCEPT ![1] = Integer(1)]
                   [] c.op = "constant" -> NoPoly
      Unary(c, p) == IF p = NoPoly \/ c.op = "call" THEN NoPoly ELSE poly_neg(p)
      Binary(c, p, q) ==
        CASE NoPoly \in {p, q} \/ c.op \in {"call2", "%"} -> NoPoly
          [] c.op = "+" -> poly_add(p, q)
          [] c.op = "-" -> poly_sub(p, q)
          [] c.op = "*" -> poly_mul(p, q)
          [] c.op = "/" -> rat_divided(p, q)
          [] c.op = "^" -> IF degree(q) <= 0 /\ q[0].den = 1 /\ q[0].num \in Exponents
                           THEN poly_power(p, q[0].num) ELSE NoPoly
  IN IF code = <<>> THEN NoPoly ELSE Compute(code, Leaf, Unary, Binary)
parse_rat_text(text) == rat_poly(parse(text))
=============================================================================
