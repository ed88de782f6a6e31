--------------------------- MODULE MCSolveSymbolic ---------------------------
(***************************************************************************)
(* Texts for SolveSymbolic.  The functions are replaced by simple ones,    *)
(* all different: exp by powers of two, the others by lines, pi by 22/7    *)
(* and e by 19/7.  What is compared is which function is called of what.   *)
(***************************************************************************)
EXTENDS SolveSymbolic
MCCalled(name, v) ==
  CASE name \in {"exp", "e"} -> IF v.den = 1 THEN pow(Integer(2), v) ELSE Unknown
    [] name = "sin" -> Sum(v, Integer(2))
    [] name = "cos" -> Sum(Product2(Integer(2), v), Integer(3))
    [] name = "log" -> Sum(v, Integer(-5))
    [] name = "sqrt" -> Sum(Product2(Integer(3), v), Integer(1))
    [] name = "sinh" -> Sum(v, Integer(7))
    [] name = "cosh" -> Sum(Product2(Integer(5), v), Integer(2))
    [] OTHER -> Sum(v, Integer(11))
MCNamed(name) == IF name = "pi" THEN [num |-> 22, den |-> 7] ELSE [num |-> 19, den |-> 7]
MCPoints == {Integer(2), Integer(3), Integer(-1)}

X == <<Token("x")>>
N(n) == <<Literal(Integer(n))>>
Family(parts, operators, differentiated) ==
  [parts |-> parts, joins |-> operators, differentiated |-> differentiated]
\* read only; and differentiated: polynomials, the chain rule in sums and
\* products, with exp, and products of polynomials with exp
Readers == Family({X, N(2), <<Token("e")>>},
                  {"+", "-", "*", "/", "^", "%", "(", "neg", "max", "sin"}, FALSE)
MCFamilies ==
  {Readers,
   Family({X, N(2), N(3)}, {"+", "-", "*", "^", "("}, TRUE),
   Family({X, N(2)}, {"+", "-", "*", "(", "sin", "cosh"}, TRUE),
   Family({X, N(2)}, {"-", "(", "exp", "cos", "sinh"}, TRUE),
   Family({X, N(2), function("exp", X)}, {"*", "(", "^"}, TRUE)}
\* quotients and roots
MCQuotients == {Family({X, N(2)}, {"/", "sqrt"}, TRUE)}
=============================================================================
