CONSTANTS
  RatLimit = 60
  DivisorLimit = 12
  MaxDegree = 4
  MaxReads = 4
  Operands <- MCOperands
  Divisions <- MCDivisions
  Powers <- MCPowers
  Tasks <- MCTasks
  Samples <- MCSamples
  VarName = "x"
  DoubleMax = 20000
  PolyMaxDegree = 6
  Called <- MCCalled
  Named <- MCNamed
  Families <- MCFamilies
  MaxJoins = 3
  Orders = {1, 2}
  Points <- MCPoints
  F = 5
  E = 5
  H = 5
  Quarter = 2
  Doubles <- MCDoubles
  Longs <- MCLongs
  Wholes <- MCWhole
SPECIFICATION Spec
\* a question answered, a call that has returned and a text are the end
CHECK_DEADLOCK FALSE
INVARIANTS
  AnswersTrue
  TextsTrue
  DoublesRight
  IntegersRight
