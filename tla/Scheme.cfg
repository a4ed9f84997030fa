\* Degree 4, three levels, four special primes, any three operations; eight slots and any four calls; degrees up to nine at levels up to seven.
CONSTANTS
  N = 4
  Scale = 128
  MaxOps = 3
  Slots = 3
  MaxCalls = 4
  MaxLevel = 7
  MaxDegree = 9
  MaxSteps = 4
  Number = 3
  Coeffs <- MCCoeffs
  Factors <- MCFactors
  q <- Moduli
  p <- Special
  secret <- MCSecret
  Uniform <- MCUniform
  Gauss <- MCGauss
  Samples <- MCSamples
  Message <- MCMessage
  Const <- MCConst
SPECIFICATION MCSpec
CHECK_DEADLOCK FALSE
INVARIANTS
  DecryptsCorrectly
  FirstResidueSuffices
  PowersAreAligned
  EachIsTakenOnce
  InverseIsGeometric
  SeriesIsPolynomial
PROPERTIES
  RotationIsWhole
  SumIsOverAllSlots
