---------------------------- MODULE MCSolveExact ----------------------------
EXTENDS SolveExact, TLC
Coefficients(low) == [i \in 0 .. 4 |-> IF i < Len(low) THEN low[i + 1] ELSE 0]
MCOperands == {Coefficients(c) : c \in {<<0, 1>>, <<-1, 1>>, <<1, 2>>, <<-2, 0, 1>>, <<3>>, <<0, -6, 0, 1>>}}
\* x^3 - 6x, whose derivative has the irrational roots of 3x^2 - 6
MCCurve == {Coefficients(<<0, -6, 0, 1>>)}
MCDivisions == {2, -3}
MCPowers == {0, 2, 3}
Inequalities == {[kind |-> "inequality", relation |-> r] : r \in {"<", "<=", ">", ">="}}
Labels == {[kind |-> "labels", order |-> n] : n \in {1, 2}}
MCTasks == {[kind |-> "equation"]} \cup Inequalities \cup Labels
MCSamples == {rat_make(n, 4) : n \in -12 .. 12} \cup {Integer(3), Integer(5), Integer(-5)}
=============================================================================
