\* power of every degree up to nine at every level up to seven.
CONSTANTS
  MaxLevel = 7
  MaxDegree = 9
  MaxSteps = 4
  Number = 3
  Coeffs <- MCCoeffs
  Factors <- MCFactors
SPECIFICATION AlgoSpec
CHECK_DEADLOCK FALSE
INVARIANTS
  PowerIsPower
