\* Degree 32, as the Ntt run, with the variant rvv_bar alone.
CONSTANTS
  LogN = 5
  q = 193
  psi = 125
  Word = 11
  VLMax = 2
  Cut = 2
  Variant <- RvvBar
  Inputs <- Arrays
  OperandPoly <- MCOperandPoly
  Operand <- MCOperand
  Consts <- Above
  MaxOps = 0
SPECIFICATION Spec
CHECK_DEADLOCK FALSE
INVARIANTS
  TransformIsNTT
