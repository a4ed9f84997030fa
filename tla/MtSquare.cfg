\* A square matrix of four blocks, three workers, one array: liveness, so no symmetry.
CONSTANTS
  w3 = w3
  w2 = w2
  w1 = w1
  Worker = {w1,w2,w3}
  N1 = 4
  N2 = 4
  B = 2
  Calls = 1
  Ext = FALSE
  SetMods = 1
  Idle = Idle
SPECIFICATION Spec
INVARIANTS
  CalmIsFourStep
PROPERTIES
  RowsAreOwned
  Terminates
