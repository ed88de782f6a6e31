--------------------------- MODULE SolveSymbolic ---------------------------
(***************************************************************************)
(* Derivatives and simplification as texts: the solver builds the text of  *)
(* the result while it reads, joining operands with as few parentheses as  *)
(* it thinks necessary, and reads that text again, to solve it or to       *)
(* differentiate it once more (src/src/solve/symbolic.c, the mode itself   *)
(* in calculus.c).  Names are the source's without solve_ and sym_.        *)
(*                                                                         *)
(* Texts are those of SolveText.  A decimal that is written keeps its      *)
(* value: rounding to ten places is left out, and so are the capacity of a *)
(* buffer and named parameters.                                            *)
(***************************************************************************)
EXTENDS SolveText
LOCAL INSTANCE FiniteSetsExt
CONSTANTS Families,    \* what is typed: the texts an expression is put together from, the
                       \* operators between and around them, whether it is differentiated
          MaxJoins,    \* bound on the number of steps
          Orders,      \* which derivatives are asked for
          Points       \* where texts are compared

VARIABLES family, text, joins
textVars == <<family, text, joins>>

Zero == <<Literal(Integer(0))>>
One1 == <<Literal(Integer(1))>>
Two == <<Literal(Integer(2))>>
In(left, body, right) == <<Token(left)>> \o body \o <<Token(right)>>
is_zero(s) == s = Zero \/ s = In("(", <<Token("-")>> \o Zero, ")")
is_one(s) == s = One1
MinusOne == <<Token("-")>> \o One1
is_negative_one(s) == s \in {MinusOne, In("(", MinusOne, ")")}
is_wrapped_negative(s) ==
  Len(s) >= 4 /\ Symbol(s, 1) = "(" /\ Symbol(s, 2) = "-" /\ Symbol(s, Len(s)) = ")"
is_simple_atom(s) == Len(s) = 1
format_number(v) == IF v.num < 0 THEN <<Token("-"), Literal(Opposite(v))>> ELSE <<Literal(v)>>

(***************************************************************************)
(* How deep in parentheses each place is, after the token there.           *)
(***************************************************************************)
Depth(s) ==
  LET depth[i \in 0 .. Len(s)] ==
        IF i = 0 THEN 0
        ELSE depth[i - 1] + (IF s[i].sym = "(" THEN 1 ELSE IF s[i].sym = ")" THEN -1 ELSE 0)
  IN depth
has_top_level_sum_text(s) ==
  \E i \in 2 .. Len(s) : Depth(s)[i] = 0 /\ s[i].sym \in {"+", "-"}
Wrapped(s) == /\ Len(s) >= 2 /\ Symbol(s, 1) = "(" /\ Symbol(s, Len(s)) = ")"
              /\ \A i \in 1 .. Len(s) - 1 : s[i].sym = ")" => Depth(s)[i] # 0
Layers(s) == Max({k \in 0 .. Len(s) \div 2 :
                    \A j \in 0 .. k - 1 : Wrapped(SubSeq(s, 1 + j, Len(s) - j))})
copy_trimmed_unwrapped(s) == SubSeq(s, 1 + Layers(s), Len(s) - Layers(s))

(***************************************************************************)
(* An operand of a product or quotient loses its parentheses unless it is  *)
(* a sum.                                                                  *)
(***************************************************************************)
display_operand_Always(op, s) == IF op \in {"*", "/"} THEN copy_trimmed_unwrapped(s) ELSE s
display_operand(op, s) ==
  IF op \in {"*", "/"} /\ ~has_top_level_sum_text(copy_trimmed_unwrapped(s))
  THEN copy_trimmed_unwrapped(s) ELSE s
binary(left, op, right) ==
  In("(", display_operand(op, left) \o <<Token(op)>> \o display_operand(op, right), ")")
function(name, arg) == <<Token(name)>> \o In("(", arg, ")")
negate_text(s) ==
  IF is_zero(s) THEN Zero
  ELSE IF is_wrapped_negative(s) THEN SubSeq(s, 3, Len(s) - 1)
  ELSE IF s = MinusOne THEN One1
  ELSE IF is_simple_atom(s) THEN <<Token("-")>> \o s
  ELSE In("(", <<Token("-")>> \o s, ")")

binary_simplified(left, op, right) ==
  CASE op = "+" /\ is_zero(left) -> right
    [] op \in {"+", "-"} /\ is_zero(right) -> left
    [] op = "-" /\ left = right -> Zero
    [] op = "-" /\ is_zero(left) -> negate_text(right)
    [] op = "*" /\ (is_zero(left) \/ is_zero(right)) -> Zero
    [] op = "*" /\ is_one(left) -> right
    [] op = "*" /\ is_one(right) -> left
    [] op = "*" /\ is_negative_one(left) -> negate_text(right)
    [] op = "*" /\ is_negative_one(right) -> negate_text(left)
    [] op = "/" /\ is_zero(left) -> Zero
    [] op = "^" /\ is_zero(right) -> One1
    [] op \in {"/", "^"} /\ is_one(right) -> left
    [] op = "^" /\ is_zero(left) -> Zero
    [] OTHER -> binary(left, op, right)

---------------------------------------------------------------------------
(***************************************************************************)
(* What is known of a part while it is read: its text, the text of its     *)
(* derivative, whether the unknown is absent from it, and its value if it  *)
(* is a number.                                                            *)
(***************************************************************************)
SymNode(expr, deriv, constant, val) ==
  [expr |-> expr, deriv |-> deriv, constant |-> constant, val |-> val]
NoNode == SymNode(<<>>, <<>>, FALSE, Unknown)
IsNumber(n) == /\ n.constant
               /\ \/ Len(n.expr) = 1 /\ Symbol(n.expr, 1) = "#"
                  \/ Len(n.expr) = 2 /\ Symbol(n.expr, 1) \in {"+", "-"} /\ Symbol(n.expr, 2) = "#"
numeric_constant_value(n) ==
  IF Symbol(n.expr, 1) = "-" THEN Opposite(n.expr[2].val) ELSE n.expr[Len(n.expr)].val
Folded(l, op, r) ==
  IF ~IsNumber(l) \/ ~IsNumber(r) THEN Unknown
  ELSE LET a == numeric_constant_value(l)
           b == numeric_constant_value(r)
       IN CASE op = "+" -> Sum(a, b) [] op = "-" -> Sum(a, Opposite(b))
            [] op = "*" -> Product2(a, b) [] op = "^" -> pow(a, b)
            [] op = "/" -> IF b = Integer(0) THEN Unknown ELSE Quotient(a, b)

(***************************************************************************)
(* A derivative is put together of the texts of its operands, each step by *)
(* binary_simplified; operands are named before the operator.              *)
(***************************************************************************)
Text(s) == <<Step("number", "", s)>>
Join(left, right, op) == left \o right \o Operation(op)
Applied(name, arg) == arg \o Called1(name, 1)
Negative(arg) == arg \o Operation("neg")
Written(steps) ==
  LET Leaf(c) == c.val
      Unary(c, s) == IF c.op = "neg" THEN negate_text(s) ELSE function(c.name, s)
      Binary(c, left, right) == binary_simplified(left, c.op, right)
  IN Compute(steps, Leaf, Unary, Binary)

product_rule(l, r) ==
  LET first == Join(Text(l.deriv), Text(r.expr), "*")
      second == Join(Text(l.expr), Text(r.deriv), "*")
  IN IF is_zero(l.deriv) /\ is_zero(r.deriv) THEN Text(Zero)
     ELSE IF is_zero(l.deriv) THEN second
     ELSE IF is_zero(r.deriv) THEN first ELSE Join(first, second, "+")
quotient_rule(l, r) ==
  IF is_zero(l.deriv) /\ is_zero(r.deriv) THEN Text(Zero)
  ELSE Join(Join(Join(Text(l.deriv), Text(r.expr), "*"), Join(Text(l.expr), Text(r.deriv), "*"), "-"),
            Join(Text(r.expr), Text(Two), "^"), "/")
Lowered_KeepsExponent(exponent) == exponent
Lowered(exponent) == Sum(exponent, Integer(-1))
power_rule(l, r) ==
  LET coeff_power == Join(Text(format_number(r.val)),
                          Join(Text(l.expr), Text(format_number(Lowered(r.val))), "^"), "*")
  IN IF r.val = Integer(0) THEN Text(Zero)
     ELSE IF is_one(l.deriv) THEN coeff_power ELSE Join(coeff_power, Text(l.deriv), "*")
exponential_rule(expr, l, r) ==
  LET ratio == Join(Text(r.expr), Join(Text(l.deriv), Text(l.expr), "/"), "*")
  IN Join(Text(expr), Join(Join(Text(r.deriv), Applied("log", Text(l.expr)), "*"), ratio, "+"), "*")

rule(l, op, r, expr) ==
  CASE op \in {"+", "-"} -> Join(Text(l.deriv), Text(r.deriv), op)
    [] op = "*" -> product_rule(l, r)
    [] op = "/" -> quotient_rule(l, r)
    [] op = "^" -> IF is_zero(l.deriv) /\ is_zero(r.deriv) THEN Text(Zero)
                   ELSE IF r.constant THEN power_rule(l, r) ELSE exponential_rule(expr, l, r)
AssignedText(l, op, r, folded, expr) ==
  SymNode(expr, Written(rule(l, op, r, expr)), l.constant /\ r.constant,
          IF Known(folded) THEN folded ELSE Integer(0))
Assigned(l, op, r, folded) ==
  AssignedText(l, op, r, folded,
    IF Known(folded) THEN format_number(folded) ELSE binary_simplified(l.expr, op, r.expr))
assign(l, op, r) == Assigned(l, op, r, Folded(l, op, r))

(***************************************************************************)
(* The chain rule.  square is the text u^2 of the arc functions.           *)
(***************************************************************************)
chain_rule(name, u) ==
  LET arg == Text(u.expr)
      square == Join(arg, Text(Two), "^")
      root == Applied("sqrt", Join(Text(One1), square, "-"))
      Times1(s) == Join(s, Text(u.deriv), "*")
      Over1(s) == Join(Text(u.deriv), s, "/")
  IN CASE is_zero(u.deriv) -> Text(Zero)
       [] name = "sin" -> Times1(Applied("cos", arg))
       [] name = "cos" -> Times1(Negative(Applied("sin", arg)))
       [] name = "tan" -> Over1(Join(Applied("cos", arg), Text(Two), "^"))
       [] name = "asin" -> Over1(root)
       [] name = "acos" -> Join(Negative(Text(u.deriv)), root, "/")
       [] name = "sinh" -> Times1(Applied("cosh", arg))
       [] name = "cosh" -> Times1(Applied("sinh", arg))
       [] name = "tanh" -> Over1(Join(Applied("cosh", arg), Text(Two), "^"))
       [] name = "exp" -> Times1(Applied("exp", arg))
       [] name = "log" -> Over1(arg)
       [] name = "sqrt" -> Over1(Text(In("(", Two \o <<Token("*")>> \o function("sqrt", u.expr), ")")))
       [] name = "atan" -> Over1(Join(Text(One1), square, "+"))
       [] OTHER -> <<>>
Chained(name, u, steps) ==
  IF steps = <<>> THEN NoNode ELSE SymNode(function(name, u.expr), Written(steps), u.constant, Integer(0))
assign_call(written, u) ==
  LET name == IF written = "e" THEN "exp" ELSE written IN Chained(name, u, chain_rule(name, u))

symbolic(code) ==
  LET Leaf(c) == CASE c.op = "number" -> SymNode(<<Literal(c.val)>>, Zero, TRUE, c.val)
                   [] c.op = "variable" -> SymNode(<<Token(VarName)>>, One1, FALSE, Integer(0))
                   [] c.op = "constant" -> SymNode(<<Token(c.name)>>, Zero, TRUE, Named(c.name))
      Unary(c, u) ==
        IF u = NoNode THEN NoNode
        ELSE IF c.op = "call" THEN assign_call(c.name, u)
        ELSE SymNode(negate_text(u.expr), negate_text(u.deriv), u.constant, Opposite(u.val))
      Binary(c, l, r) == IF NoNode \in {l, r} \/ c.op \in {"call2", "%"} THEN NoNode
                         ELSE assign(l, c.op, r)
  IN IF code = <<>> THEN NoNode ELSE Compute(code, Leaf, Unary, Binary)

---------------------------------------------------------------------------
(***************************************************************************)
(* A product of polynomials and one exponential of a line has its own      *)
(* path.  The text is cut at the first * outside parentheses.              *)
(***************************************************************************)
NoFactor == [poly |-> NoPoly, arg |-> NoPoly, count |-> 0]
Products(s) == {i \in 1 .. Len(s) : Depth(s)[i] = 0 /\ s[i].sym = "*"}
IsExpCall(s) == Len(s) >= 4 /\ Symbol(s, 1) = "exp" /\ Wrapped(Tail(s))
parse_exp_poly_factor(whole) ==
  LET First(s) == Min(Products(s))
      Single(s, poly, arg) ==
        IF IsExpCall(s)
        THEN IF arg = NoPoly \/ degree(arg) > 1 THEN NoFactor
             ELSE [poly |-> poly_constant(Integer(1)), arg |-> arg, count |-> 1]
        ELSE IF poly = NoPoly THEN NoFactor
        ELSE [poly |-> poly, arg |-> poly_constant(Integer(0)), count |-> 0]
      Both(left, right) ==
        IF NoFactor \in {left, right} THEN NoFactor
        ELSE [poly |-> poly_mul(left.poly, right.poly), arg |-> poly_add(left.arg, right.arg),
              count |-> left.count + right.count]
      factor[wrapped \in Seq({whole[i] : i \in 1 .. Len(whole)})] ==
        LET Of1(s) ==
              IF Products(s) # {}
              THEN Both(factor[SubSeq(s, 1, First(s) - 1)], factor[SubSeq(s, First(s) + 1, Len(s))])
              ELSE Single(s, parse_rat_text(s), parse_rat_text(SubSeq(s, 3, Len(s) - 1)))
        IN Of1(copy_trimmed_unwrapped(wrapped))
  IN factor[whole]
derivative_once(p) ==
  Whole([i \in Exponents |-> IF i = MaxDegree THEN Integer(0) ELSE rat_mul(p[i + 1], Integer(i + 1))])
derivative_factor(f, order) ==
  LET factor[n \in Nat] ==
        IF n = 0 THEN f.poly
        ELSE poly_add(derivative_once(factor[n - 1]), poly_scale(factor[n - 1], f.arg[1]))
  IN factor[order]

(***************************************************************************)
(* A polynomial as text: from the highest exponent, a sign between, a      *)
(* coefficient of one not written.                                         *)
(***************************************************************************)
rat_format(r) == IF r.den = 1 THEN <<Literal(Integer(r.num))>>
                 ELSE <<Literal(Integer(r.num)), Token("/"), Literal(Integer(r.den))>>
TermText(r, i) ==
  LET size == [r EXCEPT !.num = Size(@)]
      factor == IF size = Integer(1) THEN <<>> ELSE rat_format(size) \o <<Token("*")>>
      power == IF i = 1 THEN <<Token(VarName)>>
               ELSE <<Token(VarName), Token("^"), Literal(Integer(i))>>
  IN IF i = 0 THEN rat_format(size) ELSE factor \o power
poly_format(p) ==
  LET Sign1(r, i) == IF r.num < 0 THEN <<Token("-")>>
                     ELSE IF i = degree(p) THEN <<>> ELSE <<Token("+")>>
      from[i \in Exponents] ==
        (IF p[i].num = 0 THEN <<>> ELSE Sign1(p[i], i) \o TermText(p[i], i))
        \o (IF i = 0 THEN <<>> ELSE from[i - 1])
  IN IF degree(p) < 0 THEN Zero ELSE from[degree(p)]

exp_poly_text(f, order) ==
  LET factor == derivative_factor(f, order)
      written == poly_format(factor)
      safe == IF Symbol(written, 1) = "-" THEN Zero \o written ELSE written
      exponential == function("exp", poly_format(f.arg))
  IN IF degree(factor) < 0 THEN Zero
     ELSE IF factor = poly_constant(Integer(1)) THEN exponential
     ELSE exponential \o <<Token("*")>> \o In("(", safe, ")")
by_rules(s, order) ==
  LET current[n \in 0 .. order] ==
        IF n = 0 THEN s
        ELSE LET previous == current[n - 1]
             IN IF previous = <<>> THEN <<>> ELSE symbolic(parse(previous)).deriv
  IN copy_trimmed_unwrapped(current[order])
by_model(s, f, order) ==
  IF f.count > 0 /\ f.arg # NoPoly /\ degree(f.arg) <= 1 /\ derivative_factor(f, order) # NoPoly
  THEN exp_poly_text(f, order) ELSE by_rules(s, order)
symbolic_derivative_text(s, order) == by_model(s, parse_exp_poly_factor(s), order)
\* of the node that symbolic has made of a text
symbolic_simplify_text(node) == copy_trimmed_unwrapped(node.expr)

(***************************************************************************)
(* solve_run_diff_mode of a text without an equation.  A polynomial is     *)
(* differentiated as one; nothing is answered when it overflows, or when   *)
(* the text is beyond the rules.                                           *)
(***************************************************************************)
poly_derivative1(p, order) ==
  LET derived[n \in Nat] == IF n = 0 THEN p ELSE derivative_once(derived[n - 1]) IN derived[order]
run_diff_mode(s, order) ==
  LET p == parse_rat_text(s)
  IN IF p = NoPoly THEN symbolic_derivative_text(s, order)
     ELSE IF poly_derivative1(p, order) = NoPoly THEN <<>> ELSE poly_format(poly_derivative1(p, order))

---------------------------------------------------------------------------
(***************************************************************************)
(* The texts a user may type, one join at a time.                          *)
(***************************************************************************)
TextInit == family \in Families /\ text \in family.parts /\ joins = 0
Joined == \/ \E op \in family.joins \cap {"+", "-", "*", "/", "^", "%"}, s \in family.parts :
               text' = text \o <<Token(op)>> \o s \/ text' = s \o <<Token(op)>> \o text
          \/ "(" \in family.joins /\ text' = In("(", text, ")")
          \/ "neg" \in family.joins /\ text' = <<Token("-")>> \o text
          \/ \E name \in family.joins \cap FunctionNames : text' = function(name, text)
TextNext == joins < MaxJoins /\ joins' = joins + 1 /\ Joined /\ UNCHANGED family
TextSpec == TextInit /\ [][TextNext]_textVars

(***************************************************************************)
(* The derivative by the rules of the textbook, operation by operation.    *)
(***************************************************************************)
Num(n) == <<Step("number", "", Integer(n))>>
Outer(name, u) ==
  LET square == Join(u, Num(2), "^")
      Inverse1(s) == Join(Num(1), s, "/")
      root == Applied("sqrt", Join(Num(1), square, "-"))
  IN CASE name = "sin" -> Applied("cos", u)
       [] name = "cos" -> Negative(Applied("sin", u))
       [] name = "tan" -> Inverse1(Join(Applied("cos", u), Num(2), "^"))
       [] name = "asin" -> Inverse1(root)
       [] name = "acos" -> Negative(Inverse1(root))
       [] name = "sinh" -> Applied("cosh", u)
       [] name = "cosh" -> Applied("sinh", u)
       [] name = "tanh" -> Inverse1(Join(Applied("cosh", u), Num(2), "^"))
       [] name \in {"exp", "e"} -> Applied("exp", u)
       [] name = "log" -> Inverse1(u)
       [] name = "sqrt" -> Inverse1(Join(Num(2), Applied("sqrt", u), "*"))
       [] name = "atan" -> Inverse1(Join(Num(1), square, "+"))
       [] OTHER -> Applied(name, u)
Slope(code) ==
  LET Part(c, slope) == [code |-> c, slope |-> slope]
      Leaf(c) == Part(<<c>>, IF c.op = "variable" THEN Num(1) ELSE <<>>)
      Flat(u) == IF u.slope = <<>> THEN Num(0) ELSE u.slope
      Unary(c, u) ==
        Part(Append(u.code, c),
             IF u.slope = <<>> THEN <<>>
             ELSE IF c.op = "neg" THEN Negative(u.slope) ELSE Join(Outer(c.name, u.code), u.slope, "*"))
      Products1(l, r, op) == Join(Join(Flat(l), r.code, "*"), Join(l.code, Flat(r), "*"), op)
      Binary(c, l, r) ==
        Part(l.code \o Append(r.code, c),
             CASE l.slope = <<>> /\ r.slope = <<>> -> <<>>
               [] c.op \in {"+", "-"} -> Join(Flat(l), Flat(r), c.op)
               [] c.op = "*" -> Products1(l, r, "+")
               [] c.op = "/" -> Join(Products1(l, r, "-"), Join(r.code, r.code, "*"), "/")
               [] c.op = "^" /\ r.slope = <<>> ->
                    Join(Join(r.code, Join(l.code, Join(r.code, Num(1), "-"), "^"), "*"), Flat(l), "*")
               [] c.op = "^" ->
                    Join(l.code \o Append(r.code, c),
                        Join(Join(r.slope, Applied("log", l.code), "*"),
                            Join(Join(r.code, Flat(l), "*"), l.code, "/"), "+"), "*"))
  IN IF Compute(code, Leaf, Unary, Binary).slope = <<>> THEN Num(0)
     ELSE Compute(code, Leaf, Unary, Binary).slope
Derivative(code, order) == IF order = 1 THEN Slope(code) ELSE Slope(Slope(code))

SameValue(s, code) ==
  \A x \in Points : LET meant == value(code, x) IN
    Known(meant) => eval_expr(s, x) \in {meant, Unknown}

(***************************************************************************)
(* The readers agree on what a text means: where the text is a polynomial  *)
(* to one of them, the evaluator finds its values, by the parser as well   *)
(* as past it, and what is a polynomial of rational coefficients is the    *)
(* same polynomial with double ones.                                       *)
(***************************************************************************)
ReadersAgree ==
  LET code == parse(text)
      p == parse_rat_text(text)
      q == double_poly(code)
      Horner(c, high, x) ==
        LET from[i \in 0 .. high + 1] ==
              IF i = high + 1 THEN Integer(0) ELSE Sum(Product2(from[i + 1], x), c[i])
        IN from[0]
      Same(v, w) == v = w \/ Unknown \in {v, w}
  IN /\ \A x \in Points :
          /\ eval_expr(text, x) = value(code, x)
          /\ p # NoPoly => Same(eval_expr(text, x), Horner(p, MaxDegree, x))
          /\ q # NoDoubles => Same(eval_expr(text, x), Horner(q, PolyMaxDegree, x))
     /\ p # NoPoly => \A i \in Powers16 : q[i] = IF i \in Exponents THEN p[i] ELSE Integer(0)

(***************************************************************************)
(* "rule: symbolic sum, product, quotient, power, and chain rules": the    *)
(* text that is given as the derivative, read again, is the derivative of  *)
(* the text that was typed.                                                *)
(***************************************************************************)
RulesFollowed ==
  (family.differentiated /\ parse(text) # <<>>) =>
    \A n \in Orders : \A derivative \in {run_diff_mode(text, n)} \ {<<>>} :
      SameValue(derivative, Derivative(parse(text), n))

(***************************************************************************)
(* The same of plain texts, up to second derivatives, which read the text  *)
(* of the first: nothing is divided, no minus sign stands first, an        *)
(* exponent is a number, and exp is not in one text with both a product    *)
(* and a sum.  And the simplified text has the values of the one typed.    *)
(***************************************************************************)
Plain(s) ==
  LET Occurs(names) == \E i \in 1 .. Len(s) : s[i].sym \in names
  IN /\ ~Occurs({"/", "%", "tan", "tanh", "asin", "acos", "atan", "log", "sqrt"})
     /\ ~(Occurs({"exp"}) /\ Occurs({"*"}) /\ Occurs({"+", "-"}))
     /\ \A i \in 1 .. Len(s) : /\ s[i].sym = "-" => Symbol(s, i - 1) \in {"#", VarName, ")"}
                              /\ s[i].sym = "^" => Symbol(s, i + 1) = "#"
PlainRulesFollowed ==
  Plain(text) =>
    /\ RulesFollowed
    /\ \A node \in {symbolic(parse(text))} \ {NoNode} :
         SameValue(symbolic_simplify_text(node), parse(text))
=============================================================================
