\* The direct multi-threaded NTT with two workers: two arrays of four words.
CONSTANTS
  w2 = w2
  w1 = w1
  Worker = {w1,w2}
  Idle = Idle
  LogN = 2
  Calls = 2
SYMMETRY Symmetry
SPECIFICATION Spec
INVARIANTS
  CalmIsSequentialNTT
  LateStaysInBounds
