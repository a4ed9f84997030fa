\* Degree 32 (rows of 4 and 8) modulo 193 on words of eleven bits, from unreduced words, two operations.
CONSTANTS
  LogN = 5
  q = 193
  psi = 125
  Word = 11
  VLMax = 2
  Cut = 2
  Variant <- Complete
  Inputs <- Arrays
  OperandPoly <- MCOperandPoly
  Operand <- MCOperand
  Consts <- Above
  MaxOps = 2
SPECIFICATION Spec
CHECK_DEADLOCK FALSE
INVARIANTS
  StandsFor
  WordsAreSmall
PROPERTIES
  ReducedStaysReduced
