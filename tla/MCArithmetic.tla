---------------------------- MODULE MCArithmetic ----------------------------
(***************************************************************************)
(* What the programs compute, one part of it at a time: the exact path of  *)
(* the solver ("exact"), its texts ("text"), and the arithmetic of the     *)
(* bare build ("runtime").                                                 *)
(***************************************************************************)
EXTENDS MCSolveExact, MCSolveSymbolic, Aeabi
VARIABLE machine

\* around the smallest exponents, around 1, where doubles are as large as an
\* integer of either width, and at the largest exponents
MCExponents == {0, 1, 6, 14, 15, 16, 20, 24, 29, 30, 31}
MCFractions == {0, 1, 2, 15, 16, 17, 30, 31}
MCDoubles == [sign : 0 .. 1, exp : MCExponents, frac : MCFractions]
MCLongs == [hi : 0 .. 15, lo : 0 .. 15]
MCWhole == -512 .. 1023

\* doubles with five bits of exponent and of fraction, words of four bits
ASSUME DoubleAssumption /\ IntAssumption /\ OperandAssumption

ExactIdle == SolveInit /\ meant.coeff = CHOOSE q \in Operands : TRUE
TextIdle == family = Readers /\ text = <<>> /\ joins = 0
RuntimeIdle == left = zero(0) /\ right = zero(0) /\ call = Nothing /\ result = Nothing

Init == \/ machine = "exact" /\ SolveInit /\ TextIdle /\ RuntimeIdle
        \/ machine = "text" /\ ExactIdle /\ TextInit /\ RuntimeIdle
        \/ machine = "runtime" /\ ExactIdle /\ TextIdle /\ AeabiInit
Next == \/ machine = "exact" /\ SolveNext /\ UNCHANGED <<machine, textVars, aeabiVars>>
        \/ machine = "text" /\ TextNext /\ UNCHANGED <<machine, vars, aeabiVars>>
        \/ machine = "runtime" /\ AeabiNext /\ UNCHANGED <<machine, vars, textVars>>
Spec == Init /\ [][Next]_<<machine, vars, textVars, aeabiVars>>

\* What the exact path prints about an equation, an inequality or a curve is
\* true of the expression as typed: SolveExact.
AnswersTrue == IntervalsTrue /\ RootsTrue

\* The parsers agree on every text, and a derivative by the plain rules, read
\* again, is the derivative: SolveSymbolic.
TextsTrue == ReadersAgree /\ PlainRulesFollowed

\* Every sum, difference, product, quotient and converted integer is the exact
\* value rounded once; comparisons are those of the values; conversions to an
\* integer cut the fraction off and stay within the range: Aeabi.
DoublesRight == RoundedOnce /\ OrderedAndTruncated
=============================================================================
