\* Integers modulo 61 * 11 * 3, three operations; arguments of the constructor with logp up to 8; up to 8 slots in degree 16; matrices up to 12 by 12; two threads.
CONSTANTS
  q <- RnsModuli
  p <- Special
  Start <- Inputs
  Keys <- KeyValues
  MaxOps = 3
  Arguments <- MCArguments
  Q0Bits = 9
  Columns = 4
  Moduli <- SamplingModuli
  HammingWeight = 2
  Errors <- MCErrors
  P = 31
  LogN = 4
  MaxSide = 12
  Thread <- Threads
  Conditional <- Branches
  Unconditional <- Jumps
  Xor <- BitXor
  Warmup <- Warmups
  InstShift = 2
  HistoryBits = 22
  ChoiceSize = 16
  GlobalSize = 16384
  CounterBits = 2
  Word = 24
  MaxFlight = 3
  MaxFetch = 4
SPECIFICATION MCSpec
CHECK_DEADLOCK FALSE
INVARIANTS
  TypeOK
  RaiseIsExactTimesP
  ModuliServe
  OneBehind
  TablesServe
  SlotsAreValues
  RoundTrip
  SampleIsOnePolynomial
  LeavesTransposed
  HistoryIsPath
PROPERTIES
  ImplementsIntegers
  TrainedOnThePath
