\* The variant for the FHE instructions on two arrays one after the other: a
\* matrix that is not square, two workers, a set_mod task fewer than workers.
CONSTANTS
  w2 = w2
  w1 = w1
  Worker = {w1,w2}
  N1 = 2
  N2 = 3
  B = 1
  Calls = 2
  Ext = TRUE
  SetMods = 1
  Idle = Idle
SYMMETRY Symmetry
SPECIFICATION Spec
INVARIANTS
  ArgsAreTheirOwn
  CalmIsRightUpToModulus
  QueueIsRecent
