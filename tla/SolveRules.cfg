CONSTANTS
  RatLimit = 60
  DivisorLimit = 12
  MaxDegree = 4
  VarName = "x"
  DoubleMax = 20000
  PolyMaxDegree = 6
  Called <- MCCalled
  Named <- MCNamed
  Families <- MCQuotients
  MaxJoins = 3
  Orders = {1}
  Points <- MCPoints
SPECIFICATION TextSpec
\* a text of MaxJoins steps is the end
CHECK_DEADLOCK FALSE
INVARIANT RulesFollowed
