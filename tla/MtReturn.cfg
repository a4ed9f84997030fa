\* The array at the moment the function returns.
CONSTANTS
  w2 = w2
  w1 = w1
  Worker = {w1,w2}
  N1 = 2
  N2 = 2
  B = 1
  Calls = 1
  Ext = FALSE
  SetMods = 1
  Idle = Idle
SPECIFICATION Spec
INVARIANTS
  TransformedOnReturn
