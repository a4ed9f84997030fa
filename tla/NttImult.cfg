\* Degree 4 modulo 17 on words of eight bits, from unreduced words, a multiplication by i.
CONSTANTS
  LogN = 2
  q = 17
  psi = 9
  Word = 8
  VLMax = 2
  Cut = 2
  Variant <- Complete
  Inputs <- Edges
  OperandPoly <- MCOperandPoly
  Operand <- MCOperand
  Consts <- Above
  MaxOps = 1
SPECIFICATION Spec
CHECK_DEADLOCK FALSE
INVARIANTS
  ImultIsTimesI
