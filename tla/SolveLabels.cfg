CONSTANTS
  RatLimit = 100
  DivisorLimit = 12
  MaxDegree = 4
  MaxReads = 1
  Operands <- MCCurve
  Divisions <- MCDivisions
  Powers <- MCPowers
  Tasks <- MCTasks
  Samples <- MCSamples
SPECIFICATION SolveSpec
\* an answered question is the end
CHECK_DEADLOCK FALSE
INVARIANT SignsDecide
